---- MODULE Spec2Model ----
(***************************************************************************)
(* A model of the prompt-to-query engine of teaching-analytics:            *)
(*   src/src/prompt_analyzer.py            PromptAnalyzer                  *)
(*   src/deployment/visualization_generator.py                             *)
(*                          VisualizationGenerator.create_custom_visualization *)
(* Strings are TLA+ strings handled character by character (Len, SubSeq,   *)
(* \o), Python's None is the record None, a dict is a function on its keys.*)
(***************************************************************************)
EXTENDS Integers, Sequences, FiniteSets, TLC

VARIABLES
    keywords,   \* self.keywords, the lexicon
    templates,  \* self.templates, the shared template dicts
    db,         \* the rows of the database at self.db_path
    mark,       \* one earlier call, kept to compare later calls with
    last,       \* the latest call: its operation, argument and result
    after,      \* the number of calls made since the kept call (capped)
    running     \* the calls in flight, one per thread: position and locals

vars == <<keywords, templates, db, mark, last, after, running>>

(***************************************************************************)
(* Characters and the str / re primitives the source uses                  *)
(***************************************************************************)
None == [some |-> FALSE]
Some(v) == [some |-> TRUE, val |-> v]

CharAt(s, i) == SubSeq(s, i, i)

\* LET x == v IN F(x), with v evaluated once
Bind(v, F(_)) == CHOOSE y \in {F(x) : x \in {v}} : TRUE

Digits == {"0", "1", "2", "3", "4", "5", "6", "7", "8", "9"}
UpperCase == {"A", "B", "C", "D", "E", "F", "G", "H", "I", "J", "K", "L", "M",
              "N", "O", "P", "Q", "R", "S", "T", "U", "V", "W", "X", "Y", "Z"}
LowerCase == {"a", "b", "c", "d", "e", "f", "g", "h", "i", "j", "k", "l", "m",
              "n", "o", "p", "q", "r", "s", "t", "u", "v", "w", "x", "y", "z"}
WhiteSpace == {" "}

\* U+212A KELVIN SIGN, a letter outside ASCII. A string of the model holds
\* ASCII characters only, so the tilde, which occurs in no prompt as itself,
\* stands for it.
KelvinSign == "~"

\* str.lower() on one character
LowerChar(c) ==
    CASE c = "A" -> "a" [] c = "B" -> "b" [] c = "C" -> "c" [] c = "D" -> "d"
      [] c = "E" -> "e" [] c = "F" -> "f" [] c = "G" -> "g" [] c = "H" -> "h"
      [] c = "I" -> "i" [] c = "J" -> "j" [] c = "K" -> "k" [] c = "L" -> "l"
      [] c = "M" -> "m" [] c = "N" -> "n" [] c = "O" -> "o" [] c = "P" -> "p"
      [] c = "Q" -> "q" [] c = "R" -> "r" [] c = "S" -> "s" [] c = "T" -> "t"
      [] c = "U" -> "u" [] c = "V" -> "v" [] c = "W" -> "w" [] c = "X" -> "x"
      [] c = "Y" -> "y" [] c = "Z" -> "z" [] c = KelvinSign -> "k" [] OTHER -> c

\* str.lower(), character by character (the string is split in halves)
RECURSIVE Lower(_)
Lower(s) ==
    Bind(s, LAMBDA t :
        IF Len(t) <= 1 THEN LowerChar(t)
        ELSE Lower(SubSeq(t, 1, Len(t) \div 2)) \o Lower(SubSeq(t, Len(t) \div 2 + 1, Len(t))))

\* s[i:] starts with k
StartsAt(s, i, k) == i + Len(k) - 1 <= Len(s) /\ SubSeq(s, i, i + Len(k) - 1) = k

\* Python's `k in s`
Contains(s, k) == \E i \in 1..(Len(s) - Len(k) + 1) : SubSeq(s, i, i + Len(k) - 1) = k

\* the end (exclusive) of the longest run of characters of class cls starting at i
RECURSIVE RunEnd(_, _, _)
RunEnd(s, i, cls) ==
    Bind(i, LAMBDA j : IF j <= Len(s) /\ CharAt(s, j) \in cls THEN RunEnd(s, j + 1, cls) ELSE j)

DigitVal(c) ==
    CASE c = "0" -> 0 [] c = "1" -> 1 [] c = "2" -> 2 [] c = "3" -> 3 [] c = "4" -> 4
      [] c = "5" -> 5 [] c = "6" -> 6 [] c = "7" -> 7 [] c = "8" -> 8 [] c = "9" -> 9

\* int(s) for a string of decimal digits
RECURSIVE ParseInt(_)
ParseInt(s) ==
    Bind(s, LAMBDA t :
        IF t = "" THEN 0
        ELSE 10 * ParseInt(SubSeq(t, 1, Len(t) - 1)) + DigitVal(CharAt(t, Len(t))))

\* the least element of a non-empty set of integers
Least(S) == CHOOSE i \in S : \A j \in S : i <= j

(***************************************************************************)
(* extract_number                                                          *)
(***************************************************************************)
\* re.search(r'top\s+(\d+)', text): the positions where the pattern matches
TopNMatches(t) ==
    {i \in 1..Len(t) :
        /\ StartsAt(t, i, "top")
        /\ Bind(RunEnd(t, i + 3, WhiteSpace), LAMBDA d : d > i + 3 /\ RunEnd(t, d, Digits) > d)}

\* re.findall(r'\d+', text): the positions where a digit occurs
DigitPositions(t) == {i \in 1..Len(t) : CharAt(t, i) \in Digits}

\* the digits of s that start at d, as a number
NumberAt(s, d) == Bind(d, LAMBDA i : ParseInt(SubSeq(s, i, RunEnd(s, i, Digits) - 1)))

\* faulty variant: only `re.findall(r'\d+', text)`
extract_number_first(text) ==
    Bind(DigitPositions(text), LAMBDA nums :
        IF nums # {} THEN Some(NumberAt(text, Least(nums))) ELSE None)

extract_number(text) ==
    Bind(Lower(text), LAMBDA t :
    Bind(TopNMatches(t), LAMBDA tops :
        IF tops # {}
        THEN Some(NumberAt(t, RunEnd(t, Least(tops) + 3, WhiteSpace)))
        ELSE Bind(DigitPositions(text), LAMBDA nums :
                IF nums # {} THEN Some(NumberAt(text, Least(nums))) ELSE None)))

\* str.strip()
RECURSIVE Strip(_)
Strip(s) ==
    Bind(s, LAMBDA t :
        IF t = "" THEN ""
        ELSE IF CharAt(t, 1) \in WhiteSpace THEN Strip(SubSeq(t, 2, Len(t)))
        ELSE IF CharAt(t, Len(t)) \in WhiteSpace THEN Strip(SubSeq(t, 1, Len(t) - 1))
        ELSE t)

(***************************************************************************)
(* The lexicon and the templates built by __init__. A dict is iterated in  *)
(* insertion order, so each table of the lexicon is a sequence.            *)
(***************************************************************************)
Cat(c, w) == [cat |-> c, words |-> w]

InitKeywords ==
    [entity_types |-> <<
        Cat("client", <<"client", "clients", "customer", "customers", "organization", "organizations">>),
        Cat("program", <<"program", "programs", "course", "courses", "training", "trainings">>),
        Cat("enrollment", <<"enrollment", "enrollments", "registration", "registrations">>),
        Cat("opportunity", <<"opportunity", "opportunities", "pipeline", "deal", "deals", "lead", "leads">>)>>,
     metrics |-> <<
        Cat("revenue", <<"revenue", "sales", "income", "earnings", "money", "payment", "payments">>),
        Cat("profit", <<"profit", "profits", "margin", "margins", "profitability", "earnings">>),
        Cat("cost", <<"cost", "costs", "expense", "expenses", "spending", "expenditure">>),
        Cat("count", <<"count", "number", "quantity", "total", "amount">>),
        Cat("trend", <<"trend", "trends", "over time", "history", "historical", "pattern", "patterns">>)>>,
     dimensions |-> <<
        Cat("industry", <<"industry", "industries", "sector", "sectors">>),
        Cat("region", <<"region", "regions", "location", "locations", "area", "areas", "geography">>),
        Cat("size", <<"size", "sizes", "company size", "organization size">>),
        Cat("category", <<"category", "categories", "type", "types">>),
        Cat("delivery_mode", <<"delivery mode", "delivery", "mode", "online", "in-person", "virtual", "classroom">>),
        Cat("time", <<"time", "month", "months", "year", "years", "quarter", "quarters", "date", "dates", "period">>)>>,
     query_types |-> <<
        Cat("top", <<"top", "best", "highest", "most", "largest", "biggest", "greatest">>),
        Cat("bottom", <<"bottom", "worst", "lowest", "least", "smallest">>),
        Cat("average", <<"average", "avg", "mean", "median", "typical">>),
        Cat("comparison", <<"compare", "comparison", "versus", "vs", "against", "difference", "differences">>),
        Cat("distribution", <<"distribution", "breakdown", "composition", "makeup", "split", "segmentation">>)>>,
     time_periods |-> <<
        Cat("this_month", <<"this month", "current month">>),
        Cat("last_month", <<"last month", "previous month">>),
        Cat("this_quarter", <<"this quarter", "current quarter">>),
        Cat("last_quarter", <<"last quarter", "previous quarter">>),
        Cat("this_year", <<"this year", "current year">>),
        Cat("last_year", <<"last year", "previous year">>)>>]

Template(q, e, m, d, t, ds) ==
    [query_type |-> q, entity_type |-> e, metric |-> m, dimension |-> d,
     title |-> t, description |-> ds]

TemplateNames == <<"top_clients_by_revenue", "top_programs_by_revenue",
                   "top_programs_by_profit_margin", "revenue_by_industry",
                   "revenue_trend_over_time", "pipeline_by_stage", "cost_breakdown">>

InitTemplates ==
    [top_clients_by_revenue |->
        Template("top", "clients", "revenue", "client_name", "Top Clients by Revenue",
                 "Shows the clients that have generated the most revenue"),
     top_programs_by_revenue |->
        Template("top", "programs", "revenue", "program_name", "Top Programs by Revenue",
                 "Shows the programs that have generated the most revenue"),
     top_programs_by_profit_margin |->
        Template("top", "programs", "profit_margin", "program_name", "Top Programs by Profit Margin",
                 "Shows the programs with the highest profit margins"),
     revenue_by_industry |->
        Template("distribution", "clients", "revenue", "industry", "Revenue Distribution by Industry",
                 "Shows how revenue is distributed across different client industries"),
     revenue_trend_over_time |->
        Template("trend", "enrollments", "revenue", "month", "Revenue Trend Over Time",
                 "Shows how revenue has changed over time"),
     pipeline_by_stage |->
        Template("distribution", "opportunities", "pipeline_value", "stage", "Pipeline Value by Stage",
                 "Shows the distribution of pipeline value across different stages"),
     cost_breakdown |->
        Template("distribution", "enrollments", "cost", "cost_type", "Cost Breakdown",
                 "Shows the breakdown of costs by category")]

(***************************************************************************)
(* analyze_prompt (the resolver)                                           *)
(***************************************************************************)
\* a dict with key k set to v
SetKey(d, k, v) == [x \in (DOMAIN d) \cup {k} |-> IF x = k THEN v ELSE d[x]]

EmptyDict == [x \in {} |-> ""]

\* faulty variant: the filters dict is one dict shared by all calls, so the
\* entries of the call before are still in it
DefaultParamsShared ==
    [query_type |-> "top", entity_type |-> "programs", metric |-> "revenue",
     dimension |-> "program_name", limit |-> 5,
     filters |-> IF last.op = "analyze_prompt" THEN last.ret.filters ELSE EmptyDict]

DefaultParams ==
    [query_type |-> "top", entity_type |-> "programs", metric |-> "revenue",
     dimension |-> "program_name", limit |-> 5, filters |-> EmptyDict]

\* `for keyword in keywords: if keyword in prompt.lower(): ...; break`
CatMatches(c, pl) == \E i \in 1..Len(c.words) : Contains(pl, c.words[i])

\* faulty variant: an opportunity keyword also selects the pipeline metric
EntityEffectPipeline(params, cat) ==
    CASE cat = "client" -> [params EXCEPT !.entity_type = "clients", !.dimension = "client_name"]
      [] cat = "program" -> [params EXCEPT !.entity_type = "programs", !.dimension = "program_name"]
      [] cat = "enrollment" -> [params EXCEPT !.entity_type = "enrollments"]
      [] cat = "opportunity" -> [params EXCEPT !.entity_type = "opportunities",
                                              !.metric = "pipeline_value", !.dimension = "stage"]
      [] OTHER -> params

EntityEffect(params, cat) ==
    CASE cat = "client" -> [params EXCEPT !.entity_type = "clients", !.dimension = "client_name"]
      [] cat = "program" -> [params EXCEPT !.entity_type = "programs", !.dimension = "program_name"]
      [] cat = "enrollment" -> [params EXCEPT !.entity_type = "enrollments"]
      [] cat = "opportunity" -> [params EXCEPT !.entity_type = "opportunities"]
      [] OTHER -> params


\* faulty variant: the profit category sets profit whatever the prompt says
MetricEffectNoMargin(params, cat, pl) ==
    CASE cat = "revenue" -> [params EXCEPT !.metric = "revenue"]
      [] cat = "profit" -> [params EXCEPT !.metric = "profit"]
      [] cat = "cost" -> [params EXCEPT !.metric = "cost"]
      [] cat = "count" ->
            CASE params.entity_type = "clients" -> [params EXCEPT !.metric = "client_count"]
              [] params.entity_type = "programs" -> [params EXCEPT !.metric = "program_count"]
              [] params.entity_type = "enrollments" -> [params EXCEPT !.metric = "enrollment_count"]
              [] params.entity_type = "opportunities" -> [params EXCEPT !.metric = "opportunity_count"]
              [] OTHER -> params
      [] cat = "trend" -> [params EXCEPT !.query_type = "trend", !.dimension = "month"]
      [] OTHER -> params

MetricEffect(params, cat, pl) ==
    CASE cat = "revenue" -> [params EXCEPT !.metric = "revenue"]
      [] cat = "profit" -> IF Contains(pl, "margin")
                           THEN [params EXCEPT !.metric = "profit_margin"]
                           ELSE [params EXCEPT !.metric = "profit"]
      [] cat = "cost" -> [params EXCEPT !.metric = "cost"]
      [] cat = "count" ->
            CASE params.entity_type = "clients" -> [params EXCEPT !.metric = "client_count"]
              [] params.entity_type = "programs" -> [params EXCEPT !.metric = "program_count"]
              [] params.entity_type = "enrollments" -> [params EXCEPT !.metric = "enrollment_count"]
              [] params.entity_type = "opportunities" -> [params EXCEPT !.metric = "opportunity_count"]
              [] OTHER -> params
      [] cat = "trend" -> [params EXCEPT !.query_type = "trend", !.dimension = "month"]
      [] OTHER -> params

DimensionEffect(params, cat) ==
    CASE cat = "industry" -> [params EXCEPT !.dimension = "industry"]
      [] cat = "region" -> [params EXCEPT !.dimension = "region"]
      [] cat = "size" -> [params EXCEPT !.dimension = "size"]
      [] cat = "category" -> [params EXCEPT !.dimension = "category"]
      [] cat = "delivery_mode" -> [params EXCEPT !.dimension = "delivery_mode"]
      [] cat = "time" -> [params EXCEPT !.dimension = "month", !.query_type = "trend"]
      [] OTHER -> params

QueryTypeEffect(params, cat) ==
    IF cat \in {"top", "bottom", "average", "comparison", "distribution"}
    THEN [params EXCEPT !.query_type = cat]
    ELSE params

PeriodFrom(cat) ==
    CASE cat = "this_month" -> "date(\"now\", \"start of month\")"
      [] cat = "last_month" -> "date(\"now\", \"start of month\", \"-1 month\")"
      [] cat = "this_quarter" -> "date(\"now\", \"start of month\", \"-\" || (strftime(\"%m\", \"now\") - 1) % 3 || \" months\")"
      [] cat = "last_quarter" -> "date(\"now\", \"start of month\", \"-\" || (strftime(\"%m\", \"now\") - 1) % 3 + 3 || \" months\")"
      [] cat = "this_year" -> "date(\"now\", \"start of year\")"
      [] cat = "last_year" -> "date(\"now\", \"start of year\", \"-1 year\")"

PeriodTo(cat) ==
    CASE cat = "this_month" -> "date(\"now\")"
      [] cat = "last_month" -> "date(\"now\", \"start of month\", \"-1 day\")"
      [] cat = "this_quarter" -> "date(\"now\")"
      [] cat = "last_quarter" -> "date(\"now\", \"start of month\", \"-\" || (strftime(\"%m\", \"now\") - 1) % 3 || \" months\", \"-1 day\")"
      [] cat = "this_year" -> "date(\"now\")"
      [] cat = "last_year" -> "date(\"now\", \"start of year\", \"-1 day\")"


\* faulty variant: date_to is always today
PeriodEffectToday(params, cat) ==
    IF cat \in {"this_month", "last_month", "this_quarter", "last_quarter", "this_year", "last_year"}
    THEN [params EXCEPT !.filters = SetKey(SetKey(@, "date_from", PeriodFrom(cat)),
                                           "date_to", "date(\"now\")")]
    ELSE params

PeriodEffect(params, cat) ==
    IF cat \in {"this_month", "last_month", "this_quarter", "last_quarter", "this_year", "last_year"}
    THEN [params EXCEPT !.filters = SetKey(SetKey(@, "date_from", PeriodFrom(cat)),
                                           "date_to", PeriodTo(cat))]
    ELSE params

\* the effect of one matching category of a pass
Effect(pass, params, cat, pl) ==
    CASE pass = "entity_types" -> EntityEffect(params, cat)
      [] pass = "metrics" -> MetricEffect(params, cat, pl)
      [] pass = "dimensions" -> DimensionEffect(params, cat)
      [] pass = "query_types" -> QueryTypeEffect(params, cat)
      [] pass = "time_periods" -> PeriodEffect(params, cat)

\* the effects of the categories hit[i..], in order
RECURSIVE ApplyEffects(_, _, _, _, _)
ApplyEffects(pass, hit, pl, params, i) ==
    IF i > Len(hit) THEN params
    ELSE Bind(Effect(pass, params, hit[i].cat, pl),
              LAMBDA updated : ApplyEffects(pass, hit, pl, updated, i + 1))

\* One pass `for category, keywords in table.items()`: every category with a
\* keyword in the prompt applies its effect, in the table's order (the break
\* leaves the inner loop only).
ScanPass(pass, table, pl, params) ==
    Bind(SelectSeq(table, LAMBDA c : CatMatches(c, pl)),
         LAMBDA hit : ApplyEffects(pass, hit, pl, params, 1))

\* the characters [a-zA-Z] matches under re.IGNORECASE: a str pattern is
\* matched with Unicode case folding, and the Kelvin sign folds to k
Letters == UpperCase \cup LowerCase \cup {KelvinSign}

\* re.search(name + r'\s+(?:op1|op2|..)\s+([a-zA-Z\s]+)', prompt, re.IGNORECASE):
\* the end (exclusive) of the operator of a match that starts at i, or 0.
\* tl is the text in lower case.
FilterOpEnd(text, tl, i, name, ops) ==
    IF ~StartsAt(tl, i, name) THEN 0
    ELSE Bind(RunEnd(text, i + Len(name), WhiteSpace), LAMBDA a :
         Bind({o \in ops : StartsAt(tl, a, o)}, LAMBDA hits :
            IF a = i + Len(name) \/ hits = {} THEN 0
            ELSE Bind(a + Len(CHOOSE o \in hits : TRUE), LAMBDA b :
                    IF /\ b + 1 <= Len(text)
                       /\ CharAt(text, b) \in WhiteSpace
                       /\ CharAt(text, b + 1) \in Letters \cup WhiteSpace
                    THEN b ELSE 0)))

\* faulty variant: match.group(1) without .strip()
FilterMatchNoStrip(text, tl, name, ops) ==
    Bind({i \in 1..Len(text) : FilterOpEnd(text, tl, i, name, ops) # 0}, LAMBDA starts :
        IF starts = {} THEN None
        ELSE Bind(FilterOpEnd(text, tl, Least(starts), name, ops), LAMBDA b :
                Some(SubSeq(text, b, RunEnd(text, b, Letters \cup WhiteSpace) - 1))))

\* match.group(1).strip() of the leftmost match, or None
FilterMatch(text, tl, name, ops) ==
    Bind({i \in 1..Len(text) : FilterOpEnd(text, tl, i, name, ops) # 0}, LAMBDA starts :
        IF starts = {} THEN None
        ELSE Bind(FilterOpEnd(text, tl, Least(starts), name, ops), LAMBDA b :
                Some(Strip(SubSeq(text, b, RunEnd(text, b, Letters \cup WhiteSpace) - 1)))))

IsOps == {"is", "=", ":"}

FilterSpecs == <<[key |-> "industry", name |-> "industry", ops |-> IsOps],
                 [key |-> "region", name |-> "region", ops |-> IsOps],
                 [key |-> "size", name |-> "size", ops |-> IsOps],
                 [key |-> "category", name |-> "category", ops |-> IsOps],
                 [key |-> "delivery_mode", name |-> "delivery", ops |-> IsOps \cup {"mode"}],
                 [key |-> "stage", name |-> "stage", ops |-> IsOps]>>

RECURSIVE ApplyFilters(_, _, _, _)
ApplyFilters(text, tl, params, i) ==
    IF i > Len(FilterSpecs) THEN params
    ELSE Bind(FilterMatch(text, tl, FilterSpecs[i].name, FilterSpecs[i].ops), LAMBDA m :
         Bind(IF m.some THEN [params EXCEPT !.filters = SetKey(@, FilterSpecs[i].key, m.val)]
              ELSE params,
              LAMBDA updated : ApplyFilters(text, tl, updated, i + 1)))

\* faulty variant: `if limit is not None:`
TruthyNotNone(limit) == limit.some

\* `if limit:` : None and 0 are falsy
Truthy(limit) == limit.some /\ limit.val # 0



\* faulty variant: the metric pass runs before the entity pass
analyze_prompt_metrics_first(kw, text) ==
    Bind(Lower(text), LAMBDA pl :
    Bind(extract_number(text), LAMBDA limit :
    Bind(IF Truthy(limit) THEN [DefaultParams EXCEPT !.limit = limit.val] ELSE DefaultParams,
         LAMBDA p0 :
    Bind(ScanPass("metrics", kw.metrics, pl, p0), LAMBDA p1 :
    Bind(ScanPass("entity_types", kw.entity_types, pl, p1), LAMBDA p2 :
    Bind(ScanPass("dimensions", kw.dimensions, pl, p2), LAMBDA p3 :
    Bind(ScanPass("query_types", kw.query_types, pl, p3), LAMBDA p4 :
    Bind(ScanPass("time_periods", kw.time_periods, pl, p4), LAMBDA p5 :
        ApplyFilters(text, pl, p5, 1)))))))))

\* faulty variant: the query-type pass runs first, before the entity pass
analyze_prompt_query_type_first(kw, text) ==
    Bind(Lower(text), LAMBDA pl :
    Bind(extract_number(text), LAMBDA limit :
    Bind(IF Truthy(limit) THEN [DefaultParams EXCEPT !.limit = limit.val] ELSE DefaultParams,
         LAMBDA p0 :
    Bind(ScanPass("query_types", kw.query_types, pl, p0), LAMBDA p1 :
    Bind(ScanPass("entity_types", kw.entity_types, pl, p1), LAMBDA p2 :
    Bind(ScanPass("metrics", kw.metrics, pl, p2), LAMBDA p3 :
    Bind(ScanPass("dimensions", kw.dimensions, pl, p3), LAMBDA p4 :
    Bind(ScanPass("time_periods", kw.time_periods, pl, p4), LAMBDA p5 :
        ApplyFilters(text, pl, p5, 1)))))))))

analyze_prompt(kw, text) ==
    Bind(Lower(text), LAMBDA pl :
    Bind(extract_number(text), LAMBDA limit :
    Bind(IF Truthy(limit) THEN [DefaultParams EXCEPT !.limit = limit.val] ELSE DefaultParams,
         LAMBDA p0 :
    Bind(ScanPass("entity_types", kw.entity_types, pl, p0), LAMBDA p1 :
    Bind(ScanPass("metrics", kw.metrics, pl, p1), LAMBDA p2 :
    Bind(ScanPass("dimensions", kw.dimensions, pl, p2), LAMBDA p3 :
    Bind(ScanPass("query_types", kw.query_types, pl, p3), LAMBDA p4 :
    Bind(ScanPass("time_periods", kw.time_periods, pl, p4), LAMBDA p5 :
        ApplyFilters(text, pl, p5, 1)))))))))

(***************************************************************************)
(* match_template: the key of the template returned (a reference to the    *)
(* shared dict self.templates[key]), or None                               *)
(***************************************************************************)
\* the condition of the i-th `if` of match_template
RuleCond(i, pl) ==
    CASE i = 1 -> Contains(pl, "top client") /\ Contains(pl, "revenue")
      [] i = 2 -> Contains(pl, "top program") /\ Contains(pl, "revenue")
      [] i = 3 -> /\ (Contains(pl, "top program") \/ Contains(pl, "best program"))
                  /\ (Contains(pl, "profit margin") \/ Contains(pl, "profitability"))
      [] i = 4 -> Contains(pl, "revenue") /\ Contains(pl, "industry")
      [] i = 5 -> /\ (Contains(pl, "revenue") \/ Contains(pl, "sales"))
                  /\ (Contains(pl, "trend") \/ Contains(pl, "over time"))
      [] i = 6 -> /\ (Contains(pl, "pipeline") \/ Contains(pl, "opportunity"))
                  /\ Contains(pl, "stage")
      [] i = 7 -> /\ Contains(pl, "cost")
                  /\ (Contains(pl, "breakdown") \/ Contains(pl, "distribution"))

\* faulty variant: the revenue_by_industry rule is checked first
match_template_industry_first(text) ==
    Bind(Lower(text), LAMBDA pl :
        IF RuleCond(4, pl) THEN Some("revenue_by_industry")
        ELSE IF RuleCond(1, pl) THEN Some("top_clients_by_revenue")
        ELSE IF RuleCond(2, pl) THEN Some("top_programs_by_revenue")
        ELSE IF RuleCond(3, pl) THEN Some("top_programs_by_profit_margin")
        ELSE IF RuleCond(5, pl) THEN Some("revenue_trend_over_time")
        ELSE IF RuleCond(6, pl) THEN Some("pipeline_by_stage")
        ELSE IF RuleCond(7, pl) THEN Some("cost_breakdown")
        ELSE None)

match_template(text) ==
    Bind(Lower(text), LAMBDA pl :
        IF RuleCond(1, pl) THEN Some("top_clients_by_revenue")
        ELSE IF RuleCond(2, pl) THEN Some("top_programs_by_revenue")
        ELSE IF RuleCond(3, pl) THEN Some("top_programs_by_profit_margin")
        ELSE IF RuleCond(4, pl) THEN Some("revenue_by_industry")
        ELSE IF RuleCond(5, pl) THEN Some("revenue_trend_over_time")
        ELSE IF RuleCond(6, pl) THEN Some("pipeline_by_stage")
        ELSE IF RuleCond(7, pl) THEN Some("cost_breakdown")
        ELSE None)

(***************************************************************************)
(* generate_title                                                          *)
(***************************************************************************)
entity_type_map == [clients |-> "Clients", programs |-> "Programs",
                    enrollments |-> "Enrollments", opportunities |-> "Opportunities"]

metric_map == [revenue |-> "Revenue", profit |-> "Profit", profit_margin |-> "Profit Margin",
               cost |-> "Cost", client_count |-> "Client Count", program_count |-> "Program Count",
               enrollment_count |-> "Enrollment Count", opportunity_count |-> "Opportunity Count",
               pipeline_value |-> "Pipeline Value", win_rate |-> "Win Rate"]

dimension_map == [client_name |-> "", program_name |-> "", industry |-> "by Industry",
                  region |-> "by Region", size |-> "by Size", category |-> "by Category",
                  delivery_mode |-> "by Delivery Mode", month |-> "Over Time",
                  stage |-> "by Stage", cost_type |-> "Breakdown"]

query_type_map == [top |-> "Top", bottom |-> "Bottom", average |-> "Average",
                   comparison |-> "Comparison of", distribution |-> "Distribution of",
                   trend |-> "Trend of"]

\* str.capitalize() of an identifier: first letter upper case, the rest lower case
Capitalize(s) ==
    IF s = "" THEN ""
    ELSE LET c == CharAt(s, 1)
             up == IF \E u \in UpperCase : LowerChar(u) = c
                   THEN CHOOSE u \in UpperCase : LowerChar(u) = c ELSE c
         IN  up \o Lower(SubSeq(s, 2, Len(s)))

\* ' '.join(parts)
RECURSIVE Join(_)
Join(parts) ==
    IF parts = <<>> THEN ""
    ELSE IF Len(parts) = 1 THEN parts[1]
    ELSE parts[1] \o " " \o Join(Tail(parts))


\* faulty variant: the entity label is added whatever the dimension is
generate_title_always_entity(params) ==
    LET a == IF params.query_type \in DOMAIN query_type_map
             THEN <<query_type_map[params.query_type]>> ELSE <<>>
        b == IF params.query_type \in {"top", "bottom"} /\ "limit" \in DOMAIN params
             THEN <<ToString(params.limit)>> ELSE <<>>
        c == <<IF params.entity_type \in DOMAIN entity_type_map
               THEN entity_type_map[params.entity_type]
               ELSE Capitalize(params.entity_type)>>
        d == IF params.metric \in DOMAIN metric_map
             THEN <<metric_map[params.metric]>> ELSE <<>>
        e == IF params.dimension \in DOMAIN dimension_map /\ dimension_map[params.dimension] # ""
             THEN <<dimension_map[params.dimension]>> ELSE <<>>
    IN  Join(a \o b \o c \o d \o e)

generate_title(params) ==
    LET a == IF params.query_type \in DOMAIN query_type_map
             THEN <<query_type_map[params.query_type]>> ELSE <<>>
        b == IF params.query_type \in {"top", "bottom"} /\ "limit" \in DOMAIN params
             THEN <<ToString(params.limit)>> ELSE <<>>
        c == IF params.dimension \in {"client_name", "program_name"}
             THEN <<IF params.entity_type \in DOMAIN entity_type_map
                    THEN entity_type_map[params.entity_type]
                    ELSE Capitalize(params.entity_type)>>
             ELSE <<>>
        d == IF params.metric \in DOMAIN metric_map
             THEN <<metric_map[params.metric]>> ELSE <<>>
        e == IF params.dimension \in DOMAIN dimension_map /\ dimension_map[params.dimension] # ""
             THEN <<dimension_map[params.dimension]>> ELSE <<>>
    IN  Join(a \o b \o c \o d \o e)

(***************************************************************************)
(* create_custom_visualization, first half: the clauses of the SQL query.  *)
(* An item keeps the text the source appends and, beside it, what SQLite   *)
(* reads in that text: the relation alias it refers to, the column, the    *)
(* aggregate.                                                              *)
(***************************************************************************)
FromItem(t, tbl, al) == [text |-> t, table |-> tbl, alias |-> al, on |-> <<>>]
JoinItem(t, tbl, al, lal, col) == [text |-> t, table |-> tbl, alias |-> al, on |-> <<lal, col>>]

\* a plain column (kind col), a year-month bucket of a date column (kind month)
\* or an aggregate (kind agg, fn names it) of the select list
SelCol(t, name, al, fld) == [text |-> t, col |-> name, kind |-> "col", alias |-> al, field |-> fld]
SelMonth(t, al, fld) == [text |-> t, col |-> "month", kind |-> "month", alias |-> al, field |-> fld]
SelAgg(t, name, al, fn) == [text |-> t, col |-> name, kind |-> "agg", alias |-> al, field |-> fn]

\* a predicate of the where clause: op is notnull, eq, ge or le
Pred(t, al, fld, op, v) == [text |-> t, alias |-> al, field |-> fld, op |-> op, value |-> v]

\* an item of the group-by clause; alias "" names a column of the select list
GroupItem(t, al, fld) == [text |-> t, alias |-> al, field |-> fld]

OrderItem(t, name, dir) == [text |-> t, col |-> name, dir |-> dir]

EmptyClauses == [select |-> <<>>, from |-> <<>>, where |-> <<>>, group_by |-> <<>>, order_by |-> <<>>]

EnrollmentJoinMetrics == {"revenue", "profit", "enrollment_count"}

\* `# Handle entity type`
EntityClauses(entity_type, metric, dimension) ==
    CASE entity_type = "clients" ->
            LET f == <<FromItem("clients c", "clients", "c")>> \o
                     (IF metric \in EnrollmentJoinMetrics
                      THEN <<JoinItem("JOIN enrollments e ON c.client_id = e.client_id",
                                      "enrollments", "e", "c", "client_id")>>
                      ELSE <<>>)
            IN  IF dimension \in {"industry", "size", "region"}
                THEN [EmptyClauses EXCEPT
                        !.from = f,
                        !.select = <<SelCol("c." \o dimension, dimension, "c", dimension)>>,
                        !.group_by = <<GroupItem("c." \o dimension, "c", dimension)>>,
                        !.where = <<Pred("c." \o dimension \o " IS NOT NULL", "c", dimension, "notnull", "")>>]
                ELSE [EmptyClauses EXCEPT !.from = f]
      [] entity_type = "programs" ->
            LET f == <<FromItem("programs p", "programs", "p")>> \o
                     (IF metric \in EnrollmentJoinMetrics
                      THEN <<JoinItem("JOIN enrollments e ON p.program_id = e.program_id",
                                      "enrollments", "e", "p", "program_id")>>
                      ELSE <<>>)
            IN  IF dimension \in {"category", "delivery_mode"}
                THEN [EmptyClauses EXCEPT
                        !.from = f,
                        !.select = <<SelCol("p." \o dimension, dimension, "p", dimension)>>,
                        !.group_by = <<GroupItem("p." \o dimension, "p", dimension)>>,
                        !.where = <<Pred("p." \o dimension \o " IS NOT NULL", "p", dimension, "notnull", "")>>]
                ELSE IF dimension = "name"
                THEN [EmptyClauses EXCEPT
                        !.from = f,
                        !.select = <<SelCol("p.name", "name", "p", "name")>>,
                        !.group_by = <<GroupItem("p.program_id", "p", "program_id")>>]
                ELSE [EmptyClauses EXCEPT !.from = f]
      [] entity_type \in {"enrollments", "opportunities"} ->
            LET al == IF entity_type = "enrollments" THEN "e" ELSE "o"
                dt == IF entity_type = "enrollments" THEN "start_date" ELSE "created_date"
                f == <<FromItem(entity_type \o " " \o al, entity_type, al)>>
            IN  IF dimension \in {"client", "client_name"}
                THEN [EmptyClauses EXCEPT
                        !.from = f \o <<JoinItem("JOIN clients c ON " \o al \o ".client_id = c.client_id",
                                                 "clients", "c", al, "client_id")>>,
                        !.select = <<SelCol("c.name as client_name", "client_name", "c", "name")>>,
                        !.group_by = <<GroupItem(al \o ".client_id", al, "client_id")>>]
                ELSE IF dimension \in {"program", "program_name"}
                THEN [EmptyClauses EXCEPT
                        !.from = f \o <<JoinItem("JOIN programs p ON " \o al \o ".program_id = p.program_id",
                                                 "programs", "p", al, "program_id")>>,
                        !.select = <<SelCol("p.name as program_name", "program_name", "p", "name")>>,
                        !.group_by = <<GroupItem(al \o ".program_id", al, "program_id")>>]
                ELSE IF entity_type = "enrollments" /\ dimension = "delivery_mode"
                THEN [EmptyClauses EXCEPT
                        !.from = f,
                        !.select = <<SelCol("e.delivery_mode", "delivery_mode", "e", "delivery_mode")>>,
                        !.group_by = <<GroupItem("e.delivery_mode", "e", "delivery_mode")>>,
                        !.where = <<Pred("e.delivery_mode IS NOT NULL", "e", "delivery_mode", "notnull", "")>>]
                ELSE IF entity_type = "opportunities" /\ dimension = "stage"
                THEN [EmptyClauses EXCEPT
                        !.from = f,
                        !.select = <<SelCol("o.stage", "stage", "o", "stage")>>,
                        !.group_by = <<GroupItem("o.stage", "o", "stage")>>]
                ELSE IF dimension = "month"
                THEN [EmptyClauses EXCEPT
                        !.from = f,
                        !.select = <<SelMonth("strftime('%Y-%m', " \o al \o "." \o dt \o ") as month", al, dt)>>,
                        !.group_by = <<GroupItem("month", "", "month")>>,
                        !.where = <<Pred(al \o "." \o dt \o " IS NOT NULL", al, dt, "notnull", "")>>]
                ELSE [EmptyClauses EXCEPT !.from = f]
      [] OTHER -> EmptyClauses

ProfitText == "SUM(e.revenue - (e.trainer_cost + e.logistics_cost + e.venue_cost + e.utilities_cost + e.materials_cost))"

\* `# Handle metric`: the select items and the order-by item of the metric
MetricClauses(metric) ==
    CASE metric = "revenue" ->
            [select |-> <<SelAgg("SUM(e.revenue) as total_revenue", "total_revenue", "e", "sum_revenue")>>,
             order_by |-> <<OrderItem("total_revenue DESC", "total_revenue", "DESC")>>]
      [] metric = "profit" ->
            [select |-> <<SelAgg(ProfitText \o " as total_profit", "total_profit", "e", "sum_profit")>>,
             order_by |-> <<OrderItem("total_profit DESC", "total_profit", "DESC")>>]
      [] metric = "profit_margin" ->
            [select |-> <<SelAgg("SUM(e.revenue) as total_revenue", "total_revenue", "e", "sum_revenue"),
                          SelAgg(ProfitText \o " as total_profit", "total_profit", "e", "sum_profit"),
                          SelAgg("CASE WHEN SUM(e.revenue) > 0 THEN (" \o ProfitText
                                 \o " / SUM(e.revenue)) * 100 ELSE 0 END as profit_margin",
                                 "profit_margin", "e", "profit_margin")>>,
             order_by |-> <<OrderItem("profit_margin DESC", "profit_margin", "DESC")>>]
      [] metric = "enrollment_count" ->
            [select |-> <<SelAgg("COUNT(e.enrollment_id) as enrollment_count", "enrollment_count", "e", "count")>>,
             order_by |-> <<OrderItem("enrollment_count DESC", "enrollment_count", "DESC")>>]
      [] metric = "client_count" ->
            [select |-> <<SelAgg("COUNT(DISTINCT c.client_id) as client_count", "client_count", "c", "count_distinct")>>,
             order_by |-> <<OrderItem("client_count DESC", "client_count", "DESC")>>]
      [] metric = "program_count" ->
            [select |-> <<SelAgg("COUNT(DISTINCT p.program_id) as program_count", "program_count", "p", "count_distinct")>>,
             order_by |-> <<OrderItem("program_count DESC", "program_count", "DESC")>>]
      [] metric = "opportunity_count" ->
            [select |-> <<SelAgg("COUNT(o.opportunity_id) as opportunity_count", "opportunity_count", "o", "count")>>,
             order_by |-> <<OrderItem("opportunity_count DESC", "opportunity_count", "DESC")>>]
      [] metric = "win_rate" ->
            [select |-> <<SelAgg("COUNT(CASE WHEN o.stage = 'Closed Won' THEN 1 END) as won_count", "won_count", "o", "count_won"),
                          SelAgg("COUNT(CASE WHEN o.stage = 'Closed Lost' THEN 1 END) as lost_count", "lost_count", "o", "count_lost"),
                          SelAgg("COUNT(*) as total_count", "total_count", "", "count_all"),
                          SelAgg("CASE WHEN COUNT(*) > 0 THEN (COUNT(CASE WHEN o.stage = 'Closed Won' THEN 1 END) * 100.0 / COUNT(*)) ELSE 0 END as win_rate",
                                 "win_rate", "o", "win_rate")>>,
             order_by |-> <<OrderItem("win_rate DESC", "win_rate", "DESC")>>]
      [] metric = "pipeline_value" ->
            [select |-> <<SelAgg("SUM(o.potential_revenue) as total_value", "total_value", "o", "sum_potential"),
                          SelAgg("SUM(o.potential_revenue * (o.probability / 100)) as weighted_value", "weighted_value", "o", "sum_weighted")>>,
             order_by |-> <<OrderItem("weighted_value DESC", "weighted_value", "DESC")>>]
      [] OTHER -> [select |-> <<>>, order_by |-> <<>>]

\* dict iteration order of the filters the resolver builds
FilterKeys == <<"date_from", "date_to", "industry", "region", "size", "category", "delivery_mode", "stage">>

EqPred(al, fld, v) == Pred(al \o "." \o fld \o " = '" \o v \o "'", al, fld, "eq", v)

\* `# Handle filters`: the predicates of one filter entry
FilterClause(entity_type, key, value) ==
    IF value = "" THEN <<>>
    ELSE CASE key = "industry" -> <<EqPred("c", "industry", value)>>
           [] key = "size" -> <<EqPred("c", "size", value)>>
           [] key = "region" -> <<EqPred("c", "region", value)>>
           [] key = "category" -> <<EqPred("p", "category", value)>>
           [] key = "delivery_mode" ->
                IF entity_type = "programs" THEN <<EqPred("p", "delivery_mode", value)>>
                ELSE <<EqPred("e", "delivery_mode", value)>>
           [] key = "stage" -> <<EqPred("o", "stage", value)>>
           [] key = "date_from" ->
                IF entity_type = "enrollments"
                THEN <<Pred("e.start_date >= '" \o value \o "'", "e", "start_date", "ge", value)>>
                ELSE IF entity_type = "opportunities"
                THEN <<Pred("o.created_date >= '" \o value \o "'", "o", "created_date", "ge", value)>>
                ELSE <<>>
           [] key = "date_to" ->
                IF entity_type = "enrollments"
                THEN <<Pred("e.start_date <= '" \o value \o "'", "e", "start_date", "le", value)>>
                ELSE IF entity_type = "opportunities"
                THEN <<Pred("o.created_date <= '" \o value \o "'", "o", "created_date", "le", value)>>
                ELSE <<>>
           [] OTHER -> <<>>

RECURSIVE FilterClauses(_, _, _)
FilterClauses(entity_type, filters, i) ==
    IF i > Len(FilterKeys) THEN <<>>
    ELSE (IF FilterKeys[i] \in DOMAIN filters
          THEN FilterClause(entity_type, FilterKeys[i], filters[FilterKeys[i]])
          ELSE <<>>)
         \o FilterClauses(entity_type, filters, i + 1)

\* the query create_custom_visualization builds (lines 1096-1237)
BuildQuery(entity_type, metric, dimension, filters, limit) ==
    Bind(EntityClauses(entity_type, metric, dimension), LAMBDA ec :
    Bind(MetricClauses(metric), LAMBDA mc :
        [select |-> ec.select \o mc.select,
         from |-> ec.from,
         where |-> ec.where \o FilterClauses(entity_type, filters, 1),
         group_by |-> ec.group_by,
         order_by |-> mc.order_by,
         limit |-> limit]))

\* sep.join(texts of items)
RECURSIVE JoinTexts(_, _)
JoinTexts(items, sep) ==
    IF items = <<>> THEN ""
    ELSE IF Len(items) = 1 THEN items[1].text
    ELSE items[1].text \o sep \o JoinTexts(Tail(items), sep)

\* `# Build the complete query`
QueryText(q) ==
    "SELECT " \o JoinTexts(q.select, ", ") \o " FROM " \o JoinTexts(q.from, " ")
    \o (IF q.where # <<>> THEN " WHERE " \o JoinTexts(q.where, " AND ") ELSE "")
    \o (IF q.group_by # <<>> THEN " GROUP BY " \o JoinTexts(q.group_by, ", ") ELSE "")
    \o (IF q.order_by # <<>> THEN " ORDER BY " \o JoinTexts(q.order_by, ", ") ELSE "")
    \o " LIMIT " \o ToString(q.limit)

(***************************************************************************)
(* pd.read_sql(query, self.conn): SQLite's evaluation of the query over    *)
(* the four relations. A number is the exact fraction num/den (the money   *)
(* columns are declared float, data_validator.py:75), den = 0 is NULL.     *)
(***************************************************************************)
Num(n) == [num |-> n, den |-> 1]
Frac(n, d) == [num |-> n, den |-> d]
Null == [num |-> 0, den |-> 0]
NullStr == "<NULL>"

\* a >= b for numbers; NULL sorts lowest
NumGE(a, b) == b.den = 0 \/ (a.den # 0 /\ a.num * b.den >= b.num * a.den)
NumEq(a, b) == (a.den = 0 /\ b.den = 0) \/ (a.den # 0 /\ b.den # 0 /\ a.num * b.den = b.num * a.den)

\* the characters of dates, names and date expressions, in code-point order
Ascii == " \"%(),-0123456789:ABCDEFGHIJKLMNOPQRSTUVWXYZabcdefghijklmnopqrstuvwxyz|"
Rank(c) == Least({i \in 1..Len(Ascii) : CharAt(Ascii, i) = c} \cup {Len(Ascii) + 1})

\* a <= b for text values (BINARY collation)
RECURSIVE StrLE(_, _)
StrLE(a, b) ==
    Bind(<<a, b>>, LAMBDA ab :
        IF ab[1] = "" THEN TRUE
        ELSE IF ab[2] = "" THEN FALSE
        ELSE IF CharAt(ab[1], 1) = CharAt(ab[2], 1)
        THEN StrLE(SubSeq(ab[1], 2, Len(ab[1])), SubSeq(ab[2], 2, Len(ab[2])))
        ELSE Rank(CharAt(ab[1], 1)) < Rank(CharAt(ab[2], 1)))

Aliases(items) == {items[i].alias : i \in 1..Len(items)} \ {""}

\* the aliases a query refers to and the aliases its FROM list introduces
UsedAliases(q) ==
    Aliases(q.select) \cup Aliases(q.where) \cup Aliases(q.group_by)
    \cup {q.from[i].on[1] : i \in {j \in 1..Len(q.from) : q.from[j].on # <<>>}}
BoundAliases(q) == Aliases(q.from)

\* the rows of the FROM list: the base relation, then each JOIN .. ON
RECURSIVE JoinRows(_, _, _)
JoinRows(from, i, data) ==
    IF i = 1 THEN {(from[1].alias :> t) : t \in data[from[1].table]}
    ELSE Bind(from[i], LAMBDA f :
            {rt[1] @@ (f.alias :> rt[2]) :
                rt \in {x \in JoinRows(from, i - 1, data) \X data[f.table] :
                           x[1][f.on[1]][f.on[2]] = x[2][f.on[2]]}})

PredHolds(p, r) ==
    LET v == r[p.alias][p.field]
    IN  CASE p.op = "notnull" -> v # NullStr
          [] p.op = "eq" -> v = p.value
          [] p.op = "ge" -> v # NullStr /\ StrLE(p.value, v)
          [] p.op = "le" -> v # NullStr /\ StrLE(v, p.value)

\* strftime('%Y-%m', d) of a date YYYY-MM-DD
YearMonth(d) == IF d = NullStr THEN NullStr ELSE SubSeq(d, 1, 7)

HasAggregate(q) == \E i \in 1..Len(q.select) : q.select[i].kind = "agg"

\* the value of one GROUP BY item in a row
GroupValue(q, g, r) ==
    IF g.alias # "" THEN r[g.alias][g.field]
    ELSE LET s == CHOOSE i \in 1..Len(q.select) : q.select[i].col = g.field
         IN  YearMonth(r[q.select[s].alias][q.select[s].field])

GroupKey(q, r) == [i \in 1..Len(q.group_by) |-> GroupValue(q, q.group_by[i], r)]

Profit(e) == e.revenue - (e.trainer_cost + e.logistics_cost + e.venue_cost
                          + e.utilities_cost + e.materials_cost)

\* the sum over the rows of R of an integer expression, named by fn
RECURSIVE SumRows(_, _)
SumRows(R, fn) ==
    Bind(R, LAMBDA G :
        IF G = {} THEN 0
        ELSE Bind(CHOOSE x \in G : TRUE, LAMBDA r :
                (CASE fn = "sum_revenue" -> r["e"].revenue
                   [] fn = "sum_profit" -> Profit(r["e"])
                   [] fn = "sum_potential" -> r["o"].potential_revenue
                   [] fn = "sum_weighted" -> r["o"].potential_revenue * r["o"].probability)
                + SumRows(G \ {r}, fn)))

IdField(al) == CASE al = "c" -> "client_id" [] al = "p" -> "program_id"
                 [] al = "e" -> "enrollment_id" [] al = "o" -> "opportunity_id"

\* faulty variant: (SUM(e.revenue - ...) / SUM(e.revenue)) * 100 without the
\* CASE; SQLite's division by zero gives NULL
ProfitMarginUnguarded(R) ==
    IF R # {} /\ SumRows(R, "sum_revenue") # 0
    THEN Frac(SumRows(R, "sum_profit") * 100, SumRows(R, "sum_revenue"))
    ELSE Null

\* CASE WHEN SUM(e.revenue) > 0 THEN (SUM(e.revenue - ...) / SUM(e.revenue)) * 100 ELSE 0 END
ProfitMargin(R) ==
    IF R # {} /\ SumRows(R, "sum_revenue") > 0
    THEN Frac(SumRows(R, "sum_profit") * 100, SumRows(R, "sum_revenue"))
    ELSE Num(0)

\* the value of an aggregate of the select list over the rows R of a group
Aggregate(fn, al, R) ==
    CASE fn \in {"sum_revenue", "sum_profit", "sum_potential"} ->
            IF R = {} THEN Null ELSE Num(SumRows(R, fn))
      [] fn = "sum_weighted" ->
            IF R = {} THEN Null ELSE Frac(SumRows(R, fn), 100)
      [] fn = "profit_margin" -> ProfitMargin(R)
      [] fn = "count" -> Num(Cardinality(R))
      [] fn = "count_distinct" -> Num(Cardinality({r[al][IdField(al)] : r \in R}))
      [] fn = "count_won" -> Num(Cardinality({r \in R : r["o"].stage = "Closed Won"}))
      [] fn = "count_lost" -> Num(Cardinality({r \in R : r["o"].stage = "Closed Lost"}))
      [] fn = "count_all" -> Num(Cardinality(R))
      [] fn = "win_rate" ->
            IF Cardinality(R) > 0
            THEN Frac(Cardinality({r \in R : r["o"].stage = "Closed Won"}) * 100, Cardinality(R))
            ELSE Num(0)

\* one result row: the select list over the rows R of a group
ResultRow(q, R) ==
    Bind(R, LAMBDA G :
        [c \in {q.select[i].col : i \in 1..Len(q.select)} |->
            Bind(q.select[CHOOSE i \in 1..Len(q.select) : q.select[i].col = c], LAMBDA s :
                CASE s.kind = "agg" -> Aggregate(s.field, s.alias, G)
                  [] s.kind = "month" ->
                        IF G = {} THEN NullStr
                        ELSE YearMonth((CHOOSE r \in G : TRUE)[s.alias][s.field])
                  [] s.kind = "col" ->
                        IF G = {} THEN NullStr ELSE (CHOOSE r \in G : TRUE)[s.alias][s.field])])

\* ORDER BY: rows with equal keys come in an order SQLite chooses
RECURSIVE SortRows(_, _)
SortRows(S, ord) ==
    Bind(S, LAMBDA G :
        IF G = {} THEN <<>>
        ELSE Bind(IF ord = <<>> THEN CHOOSE x \in G : TRUE
                  ELSE IF ord[1].dir = "DESC"
                  THEN CHOOSE x \in G : \A y \in G : NumGE(x[ord[1].col], y[ord[1].col])
                  ELSE CHOOSE x \in G : \A y \in G : NumGE(y[ord[1].col], x[ord[1].col]),
                  LAMBDA top : <<top>> \o SortRows(G \ {top}, ord)))

Min(a, b) == IF a <= b THEN a ELSE b

\* [error |-> message] or [rows |-> the rows in order]
Execute(q, data) ==
    IF q.select = <<>> \/ q.from = <<>> THEN [error |-> "syntax error"]
    ELSE IF ~(UsedAliases(q) \subseteq BoundAliases(q)) THEN [error |-> "no such column"]
    ELSE Bind({r \in JoinRows(q.from, Len(q.from), data) :
                  \A i \in 1..Len(q.where) : PredHolds(q.where[i], r)}, LAMBDA rows :
         Bind(IF q.group_by # <<>>
              THEN {ResultRow(q, {r \in rows : GroupKey(q, r) = k}) :
                       k \in {GroupKey(q, r) : r \in rows}}
              ELSE IF HasAggregate(q) THEN {ResultRow(q, rows)}
              ELSE {ResultRow(q, {r}) : r \in rows}, LAMBDA out :
         Bind(SortRows(out, q.order_by), LAMBDA sorted :
            [rows |-> IF q.limit < 0 THEN sorted
                      ELSE SubSeq(sorted, 1, Min(q.limit, Len(sorted)))])))

(***************************************************************************)
(* create_custom_visualization, second half: the chart. plotly raises a    *)
(* ValueError (data[col]: a KeyError) for a column the data does not have. *)
(***************************************************************************)
CategoryDimensions == {"industry", "category", "size", "region", "delivery_mode"}

\* y_col / value_col of a chart
ValueColumn(metric, pie) ==
    CASE metric = "profit_margin" -> IF pie THEN "total_profit" ELSE "profit_margin"
      [] metric = "win_rate" -> IF pie THEN "total_count" ELSE "win_rate"
      [] metric = "pipeline_value" -> "weighted_value"
      [] metric \in {"revenue", "profit"} -> "total_" \o metric
      [] OTHER -> metric

\* the chart drawn for non-empty data and the columns it reads
ChartOf(query_type, metric, dimension) ==
    IF query_type = "top" /\ dimension \in CategoryDimensions \cup {"client_name", "program_name", "stage"}
    THEN [kind |-> "bar", columns |-> {dimension, ValueColumn(metric, FALSE)}]
    ELSE IF query_type = "trend" /\ dimension = "month"
    THEN [kind |-> "line", columns |-> {"month", ValueColumn(metric, FALSE)}]
    ELSE IF query_type = "distribution" /\ dimension \in CategoryDimensions \cup {"stage"}
    THEN [kind |-> "pie", columns |-> {dimension, ValueColumn(metric, TRUE)}]
    ELSE IF query_type = "comparison" /\ dimension \in CategoryDimensions
    THEN IF metric = "profit_margin"
         THEN [kind |-> "subplots", columns |-> {dimension, "total_revenue", "total_profit", "profit_margin"}]
         ELSE [kind |-> "bar", columns |-> {dimension, IF metric \in {"revenue", "profit"}
                                                        THEN "total_" \o metric ELSE metric}]
    ELSE [kind |-> "None", columns |-> {}]

create_custom_visualization(query_type, entity_type, metric, dimension, filters, limit, data) ==
    Bind(BuildQuery(entity_type, metric, dimension, filters, limit), LAMBDA q :
    Bind(Execute(q, data), LAMBDA r :
        IF "error" \in DOMAIN r THEN [error |-> r.error]
        ELSE IF r.rows = <<>> THEN [data |-> r.rows, chart |-> "None", query |-> QueryText(q)]
        ELSE Bind(ChartOf(query_type, metric, dimension), LAMBDA ch :
                IF ch.columns \subseteq DOMAIN r.rows[1]
                THEN [data |-> r.rows, chart |-> ch.kind, query |-> QueryText(q)]
                ELSE [error |-> "not the name of a column"])))

(***************************************************************************)
(* execute_analysis and process_prompt. params is a reference to a dict:   *)
(* ref names the shared template the dict is, or is "fresh" for a dict of  *)
(* the call's own; a store through a reference to a template changes       *)
(* self.templates.                                                         *)
(***************************************************************************)
\* template.copy()
\* faulty variant: `params = template`, no copy
DictAlias(T, key) == [ref |-> key, val |-> T[key]]

DictCopy(T, key) == [ref |-> "fresh", val |-> T[key]]

\* params[k] = v
Store(T, h, k, v) ==
    Bind(SetKey(h.val, k, v), LAMBDA d :
        [T |-> IF h.ref = "fresh" THEN T ELSE [T EXCEPT ![h.ref] = d],
         h |-> [h EXCEPT !.val = d]])

\* params.get('limit', 10)
DefaultLimit == 10

execute_analysis(T, h, data) ==
    Bind(h.val, LAMBDA params :
    Bind(create_custom_visualization(
             params.query_type, params.entity_type, params.metric, params.dimension,
             IF "filters" \in DOMAIN params THEN params.filters ELSE EmptyDict,
             IF "limit" \in DOMAIN params THEN params.limit ELSE DefaultLimit,
             data), LAMBDA result :
    Bind(IF "title" \notin DOMAIN params
         THEN Store(T, h, "title", generate_title(params))
         ELSE [T |-> T, h |-> h], LAMBDA st :
        [ret |-> SetKey(result, "params", st.h.val), T |-> st.T])))

\* faulty variant: the template is ignored
UseTemplateNever(T, template) == FALSE

\* `if template:` : a template is a non-empty dict
UseTemplate(T, template) == template.some /\ DOMAIN T[template.val] # {}

\* ret is the dict returned, T the templates afterwards, template the result
\* of match_template, resolved whether analyze_prompt ran, params the dict
\* handed to execute_analysis
process_prompt(T, K, data, text) ==
    Bind(match_template(text), LAMBDA template :
    Bind(IF UseTemplate(T, template)
         THEN Bind(extract_number(text), LAMBDA limit :
                  IF Truthy(limit) THEN Store(T, DictCopy(T, template.val), "limit", limit.val)
                  ELSE [T |-> T, h |-> DictCopy(T, template.val)])
         ELSE [T |-> T, h |-> [ref |-> "fresh", val |-> analyze_prompt(K, text)]], LAMBDA h0 :
    Bind(execute_analysis(h0.T, h0.h, data), LAMBDA r :
        [ret |-> r.ret, T |-> r.T, template |-> template,
         resolved |-> ~UseTemplate(T, template), params |-> h0.h.val])))

(***************************************************************************)
(* The data: the fixture of two clients, A with revenue 100 and B with 50  *)
(***************************************************************************)
Client(id, n, ind) == [client_id |-> id, name |-> n, industry |-> ind, size |-> "Large", region |-> "North"]
Program(id, n, cat) == [program_id |-> id, name |-> n, category |-> cat, delivery_mode |-> "Online"]
Enrollment(id, c, p, rev, cost, d) ==
    [enrollment_id |-> id, client_id |-> c, program_id |-> p, revenue |-> rev,
     trainer_cost |-> cost, logistics_cost |-> 0, venue_cost |-> 0, utilities_cost |-> 0,
     materials_cost |-> 0, delivery_mode |-> "Online", start_date |-> d]
Opportunity(id, c, p, st, rev, prob) ==
    [opportunity_id |-> id, client_id |-> c, program_id |-> p, stage |-> st,
     potential_revenue |-> rev, probability |-> prob, created_date |-> "2024-03-01"]

Fixture ==
    [clients |-> {Client(1, "A", "Technology"), Client(2, "B", "Healthcare")},
     programs |-> {Program(1, "P", "Leadership"), Program(2, "Q", "Sales")},
     enrollments |-> {Enrollment(1, 1, 1, 60, 20, "2024-01-15"),
                      Enrollment(2, 1, 2, 40, 10, "2024-02-10"),
                      Enrollment(3, 2, 1, 50, 50, "2024-02-12")},
     opportunities |-> {Opportunity(1, 1, 1, "Closed Won", 100, 100),
                        Opportunity(2, 2, 2, "Proposal", 80, 50)}]

(***************************************************************************)
(* The prompts                                                             *)
(***************************************************************************)
MaxWords == 2

Words == {"top", "7", "clients", "revenue", "industry", "trend"}

RECURSIVE Phrases(_)
Phrases(n) == IF n = 0 THEN {""}
              ELSE Phrases(n - 1)
                   \cup {IF p = "" THEN w ELSE p \o " " \o w : p \in Phrases(n - 1), w \in Words}

\* get_suggested_prompts (lines 517-528)
SuggestedPrompts ==
    {"Show me the top 5 clients by revenue",
     "What are the most profitable programs?",
     "Show revenue trend over time",
     "What is the distribution of revenue by industry?",
     "Show me the pipeline value by stage",
     "What is the cost breakdown for all programs?",
     "Which program categories have the highest profit margins?",
     "Show me client enrollment trends over the last year",
     "What is the win rate by program category?",
     "Compare revenue and profit for different delivery modes"}

ExamplePrompts ==
    {"Show me the top client by revenue",
     "show me the top 7 clients",
     "show me clients",
     "hello there",
     "revenue by industry",
     "3 of the TOP  12 programs",
     "top 0 programs",
     "laptop 4 sales in 2024",
     "top client revenue by industry",
     "best program profitability and revenue trend",
     "show revenue trend by industry",
     "profit margin by client over time",
     "enrollment revenue by month",
     "industry is Healthcare",
     "industry=Healthcare",
     "clients where size is Large and region = North",
     "clients and programs",
     "show earnings",
     "revenue over time by industry",
     "highest revenue by month",
     "compare revenue trend by quarter",
     "count clients and deals",
     "best margins",
     "Profit MARGIN by program",
     "revenue this year versus last year",
     "industry is ~elvin",
     "region is O'Brien; drop 2"}

Prompts == Phrases(MaxWords) \cup SuggestedPrompts \cup ExamplePrompts

\* the prompt of the calls that are not compared
SessionPrompts == {"top 3 programs by revenue where industry is Tech last year"}

\* The calls of a session: calls with the session prompt at any time, one
\* call with any prompt that is kept, and the kept call made again.
NoCall == [op |-> "none"]

\* after counts the calls made since the kept call, up to MaxAfter
MaxAfter == 2

Record(c, keep) ==
    /\ mark' = IF keep THEN c ELSE mark
    /\ last' = c
    /\ after' = IF keep \/ mark = NoCall THEN 0 ELSE Min(after + 1, MaxAfter)
    /\ running' = running

\* the threads calling into one analyzer
NumThreads == 2
Threads == 1..NumThreads

\* a thread that is not inside a call
Idle == [pc |-> "idle"]

Init ==
    /\ keywords = InitKeywords
    /\ templates = InitTemplates
    /\ db = Fixture
    /\ mark = NoCall
    /\ last = NoCall
    /\ after = 0
    /\ running = [t \in Threads |-> Idle]

ExtractNumber(p, keep) ==
    /\ \E r \in {extract_number(p)} : Record([op |-> "extract_number", arg |-> p, ret |-> r], keep)
    /\ UNCHANGED <<keywords, templates, db>>

MatchTemplate(p, keep) ==
    /\ \E r \in {match_template(p)} : Record([op |-> "match_template", arg |-> p, ret |-> r], keep)
    /\ UNCHANGED <<keywords, templates, db>>

AnalyzePrompt(p, keep) ==
    /\ \E r \in {analyze_prompt(keywords, p)} :
          Record([op |-> "analyze_prompt", arg |-> p, ret |-> r], keep)
    /\ UNCHANGED <<keywords, templates, db>>

ProcessPrompt(p, keep) ==
    \E r \in {process_prompt(templates, keywords, db, p)} :
        /\ Record([op |-> "process_prompt", arg |-> p, ret |-> r.ret, template |-> r.template,
                   resolved |-> r.resolved, params |-> r.params], keep)
        /\ templates' = r.T
        /\ UNCHANGED <<keywords, db>>

Call(p, keep) ==
    \/ ExtractNumber(p, keep)
    \/ MatchTemplate(p, keep)
    \/ AnalyzePrompt(p, keep)
    \/ ProcessPrompt(p, keep)

\* the kept call made again
Again ==
    \/ mark.op = "extract_number" /\ ExtractNumber(mark.arg, FALSE)
    \/ mark.op = "match_template" /\ MatchTemplate(mark.arg, FALSE)
    \/ mark.op = "analyze_prompt" /\ AnalyzePrompt(mark.arg, FALSE)
    \/ mark.op = "process_prompt" /\ ProcessPrompt(mark.arg, FALSE)

Next ==
    \/ \E p \in SessionPrompts : Call(p, FALSE)
    \/ mark = NoCall /\ \E p \in Prompts : Call(p, TRUE)
    \/ Again

Spec == Init /\ [][Next]_vars

(***************************************************************************)
(* create_custom_visualization called directly: the requests range over    *)
(* the values the resolver and the templates can produce                   *)
(***************************************************************************)
QueryTypes == {"top", "bottom", "average", "trend", "distribution", "comparison"}
EntityTypes == {"clients", "programs", "enrollments", "opportunities"}
Metrics == {"revenue", "profit", "profit_margin", "enrollment_count", "client_count",
            "program_count", "opportunity_count", "win_rate", "pipeline_value", "cost"}
Dimensions == {"client_name", "program_name", "industry", "category", "size", "region",
               "delivery_mode", "month", "stage", "cost_type"}
RequestFilters == {EmptyDict,
                   [industry |-> "Technology", date_from |-> "2024-02-01"],
                   [delivery_mode |-> "Online", date_to |-> "2024-02-11"]}
Limits == {1, 5}

Requests ==
    [query_type : QueryTypes, entity_type : EntityTypes, metric : Metrics,
     dimension : Dimensions, filters : RequestFilters, limit : Limits]

\* an enrollment that brought no revenue and one that was refunded
ZeroRevenue ==
    [Fixture EXCEPT !.enrollments = {Enrollment(1, 1, 1, 60, 20, "2024-01-15"),
                                     Enrollment(2, 2, 1, 0, 50, "2024-02-12"),
                                     Enrollment(3, 2, 2, -10, 0, "2024-03-01")}]

NoData == [clients |-> {}, programs |-> {}, enrollments |-> {}, opportunities |-> {}]

Datasets == {Fixture, ZeroRevenue, NoData}

CompileInit ==
    /\ keywords = InitKeywords
    /\ templates = InitTemplates
    /\ db \in Datasets
    /\ mark = NoCall
    /\ last = NoCall
    /\ after = 0
    /\ running = [t \in Threads |-> Idle]

\* the function keeps no state between calls: a behaviour is one call
CreateCustomVisualization(req) ==
    /\ last = NoCall
    /\ \E r \in {create_custom_visualization(req.query_type, req.entity_type, req.metric,
                                             req.dimension, req.filters, req.limit, db)} :
          last' = [op |-> "create_custom_visualization", arg |-> req, ret |-> r,
                   query |-> BuildQuery(req.entity_type, req.metric, req.dimension,
                                        req.filters, req.limit)]
    /\ UNCHANGED <<keywords, templates, db, mark, after, running>>

CompileNext == \E req \in Requests : CreateCustomVisualization(req)

SpecCompile == CompileInit /\ [][CompileNext]_vars


(***************************************************************************)
(* generate_title called directly, on parameter dicts with and without a   *)
(* limit and with values that have no label                                *)
(***************************************************************************)
TitleQueryTypes == {"top", "bottom", "average", "comparison", "distribution", "trend", "ranking"}
TitleEntityTypes == {"clients", "opportunities", "trainers"}
TitleMetrics == {"revenue", "profit_margin", "win_rate", "satisfaction"}
TitleDimensions == {"client_name", "program_name", "industry", "month", "cost_type", "trainer"}
TitleLimits == {5, 12}

TitleInputs ==
    [query_type : TitleQueryTypes, entity_type : TitleEntityTypes, metric : TitleMetrics,
     dimension : TitleDimensions, limit : TitleLimits]
    \cup [query_type : TitleQueryTypes, entity_type : TitleEntityTypes, metric : TitleMetrics,
          dimension : TitleDimensions]

\* params is the caller's dict as it is after the call: generate_title
\* assigns to no key of it
GenerateTitle(params) ==
    /\ last = NoCall
    /\ \E r \in {generate_title(params)} :
          last' = [op |-> "generate_title", arg |-> params, ret |-> r, params |-> params]
    /\ UNCHANGED <<keywords, templates, db, mark, after, running>>

TitleNext == \E params \in TitleInputs : GenerateTitle(params)

SpecTitle == Init /\ [][TitleNext]_vars

(***************************************************************************)
(* Calls from several threads on one analyzer. Python runs one thread at   *)
(* a time and may switch threads between any two statements, so a call is  *)
(* a sequence of steps, one per statement of process_prompt and            *)
(* execute_analysis that reads or writes a dict; the steps of the calls in *)
(* flight interleave in any order.                                         *)
(***************************************************************************)
ConcPrompts == {"the 3 top programs by revenue",
                "top programs by revenue",
                "bottom 2 clients by profit"}

\* the dict a reference designates now
Deref(T, h) == IF h.ref = "fresh" THEN h.val ELSE T[h.ref]

\* thread t enters process_prompt or analyze_prompt
StartCall(t, op, p) ==
    /\ running[t].pc = "idle"
    /\ running' = [running EXCEPT ![t] = [pc |-> "start", op |-> op, prompt |-> p]]
    /\ UNCHANGED <<keywords, templates, db, mark, last, after>>

\* analyze_prompt called directly: it reads self.keywords only
Resolve(t) ==
    /\ running[t].pc = "start"
    /\ running[t].op = "analyze_prompt"
    /\ \E r \in {analyze_prompt(keywords, running[t].prompt)} :
          running' = [running EXCEPT ![t] =
                         [pc |-> "done", op |-> "analyze_prompt",
                          prompt |-> running[t].prompt, ret |-> r]]
    /\ UNCHANGED <<keywords, templates, db, mark, last, after>>

\* template = self.match_template(prompt); if template:
Match(t) ==
    /\ running[t].pc = "start"
    /\ running[t].op = "process_prompt"
    /\ \E template \in {match_template(running[t].prompt)} :
          running' = [running EXCEPT ![t] =
                         [pc |-> IF UseTemplate(templates, template) THEN "copy" ELSE "analyze",
                          op |-> "process_prompt", prompt |-> running[t].prompt,
                          template |-> template]]
    /\ UNCHANGED <<keywords, templates, db, mark, last, after>>

\* params = template.copy()
Copy(t) ==
    /\ running[t].pc = "copy"
    /\ \E h \in {DictCopy(templates, running[t].template.val)} :
          running' = [running EXCEPT ![t] =
                         [pc |-> "limit", op |-> "process_prompt",
                          prompt |-> running[t].prompt, h |-> h]]
    /\ UNCHANGED <<keywords, templates, db, mark, last, after>>

\* limit = self.extract_number(prompt); if limit: params['limit'] = limit
SetLimit(t) ==
    /\ running[t].pc = "limit"
    /\ \E limit \in {extract_number(running[t].prompt)} :
       \E st \in {IF Truthy(limit)
                  THEN Store(templates, [running[t].h EXCEPT !.val = Deref(templates, running[t].h)],
                             "limit", limit.val)
                  ELSE [T |-> templates, h |-> running[t].h]} :
          /\ templates' = st.T
          /\ running' = [running EXCEPT ![t] = [@ EXCEPT !.pc = "execute", !.h = st.h]]
    /\ UNCHANGED <<keywords, db, mark, last, after>>

\* params = self.analyze_prompt(prompt)
Analyze(t) ==
    /\ running[t].pc = "analyze"
    /\ \E r \in {analyze_prompt(keywords, running[t].prompt)} :
          running' = [running EXCEPT ![t] =
                         [pc |-> "execute", op |-> "process_prompt",
                          prompt |-> running[t].prompt,
                          h |-> [ref |-> "fresh", val |-> r]]]
    /\ UNCHANGED <<keywords, templates, db, mark, last, after>>

\* result = viz_gen.create_custom_visualization(...), on a generator and a
\* database connection of the call's own
Visualize(t) ==
    /\ running[t].pc = "execute"
    /\ \E params \in {Deref(templates, running[t].h)} :
       \E result \in {create_custom_visualization(
                          params.query_type, params.entity_type, params.metric,
                          params.dimension,
                          IF "filters" \in DOMAIN params THEN params.filters ELSE EmptyDict,
                          IF "limit" \in DOMAIN params THEN params.limit ELSE DefaultLimit,
                          db)} :
          running' = [running EXCEPT ![t] =
                         [pc |-> "title", op |-> "process_prompt",
                          prompt |-> running[t].prompt, h |-> running[t].h,
                          result |-> result]]
    /\ UNCHANGED <<keywords, templates, db, mark, last, after>>

\* if 'title' not in params: params['title'] = self.generate_title(params)
StoreTitle(t) ==
    /\ running[t].pc = "title"
    /\ \E params \in {Deref(templates, running[t].h)} :
       \E st \in {IF "title" \notin DOMAIN params
                  THEN Store(templates, [running[t].h EXCEPT !.val = params],
                             "title", generate_title(params))
                  ELSE [T |-> templates, h |-> running[t].h]} :
          /\ templates' = st.T
          /\ running' = [running EXCEPT ![t] = [@ EXCEPT !.pc = "return", !.h = st.h]]
    /\ UNCHANGED <<keywords, db, mark, last, after>>

\* result['params'] = params; return result
Return(t) ==
    /\ running[t].pc = "return"
    /\ \E params \in {Deref(templates, running[t].h)} :
          running' = [running EXCEPT ![t] =
                         [pc |-> "done", op |-> "process_prompt",
                          prompt |-> running[t].prompt,
                          ret |-> SetKey(running[t].result, "params", params)]]
    /\ UNCHANGED <<keywords, templates, db, mark, last, after>>

ConcNext ==
    \E t \in Threads :
        \/ \E p \in ConcPrompts : StartCall(t, "process_prompt", p)
        \/ \E p \in ConcPrompts : StartCall(t, "analyze_prompt", p)
        \/ Resolve(t)
        \/ Match(t)
        \/ Copy(t)
        \/ SetLimit(t)
        \/ Analyze(t)
        \/ Visualize(t)
        \/ StoreTitle(t)
        \/ Return(t)

SpecConc == Init /\ [][ConcNext]_vars

(***************************************************************************)
(* Properties of the prompt analyzer, checked under Spec                   *)
(***************************************************************************)
ParamFields == {"query_type", "entity_type", "metric", "dimension", "limit", "filters"}

\* a lexicon keyword, a number or a filter phrase occurs in the prompt
HasCue(text) ==
    \/ \E pass \in DOMAIN keywords : \E i \in 1..Len(keywords[pass]) :
          CatMatches(keywords[pass][i], Lower(text))
    \/ extract_number(text) # None
    \/ \E i \in 1..Len(FilterSpecs) :
          FilterMatch(text, Lower(text), FilterSpecs[i].name, FilterSpecs[i].ops) # None

RulesMet(text) == {i \in 1..Len(TemplateNames) : RuleCond(i, Lower(text))}

\* C3: match_template returns the template of the earliest rule, in the
\* order of TemplateNames, whose substring conditions the prompt satisfies,
\* and None when it satisfies no rule.
C3_FirstRuleWins ==
    last.op = "match_template" =>
        last.ret = IF RulesMet(last.arg) = {} THEN None
                   ELSE Some(TemplateNames[Least(RulesMet(last.arg))])

C3_Witness ==
    /\ last.op = "match_template"
    /\ {1, 4} \subseteq RulesMet(last.arg)
    /\ last.ret = Some("top_clients_by_revenue")

\* C4: in process_prompt a matching template decides the parameters: they
\* have the template's query_type, entity_type, metric and dimension and no
\* filters entry, and analyze_prompt runs exactly when no rule matches; the
\* prompt "Show me the top client by revenue" gets dimension client_name
\* from top_clients_by_revenue.
C4_TemplatePrecedence ==
    last.op = "process_prompt" =>
        /\ last.resolved <=> RulesMet(last.arg) = {}
        /\ RulesMet(last.arg) # {} =>
              /\ last.template = Some(TemplateNames[Least(RulesMet(last.arg))])
              /\ \A f \in {"query_type", "entity_type", "metric", "dimension"} :
                    last.params[f] = InitTemplates[last.template.val][f]
              /\ "filters" \notin DOMAIN last.params
              /\ "filters" \notin DOMAIN last.ret.params
        /\ last.arg = "Show me the top client by revenue" =>
              /\ last.template = Some("top_clients_by_revenue")
              /\ last.ret.params.dimension = "client_name"

C4_Witness ==
    /\ last.op = "process_prompt"
    /\ last.arg = "Show me the top client by revenue"
    /\ ~last.resolved
    /\ last.ret.params.dimension = "client_name"

\* C5: after any sequence of calls the template table and the lexicon are
\* as constructed: every template has its original fields and values, and
\* none has a limit.
C5_TablesUnchanged ==
    /\ templates = InitTemplates
    /\ keywords = InitKeywords
    /\ \A t \in DOMAIN templates : "limit" \notin DOMAIN templates[t]

\* a process_prompt call that took a template and stored the prompt's number
\* as the limit of its parameters
C5_Witness ==
    /\ last.op = "process_prompt"
    /\ last.template.some
    /\ "limit" \in DOMAIN last.ret.params
    /\ "limit" \notin DOMAIN templates[last.template.val]

\* C7: process_prompt always returns a dict, with the error message under
\* 'error' when a step failed, and every call, also one made after a call
\* that returned an error, returns what it returns on a new analyzer.
C7_ProcessNeverRaises ==
    last.op = "process_prompt" =>
        /\ "error" \in DOMAIN last.ret \/ "data" \in DOMAIN last.ret
        /\ "error" \in DOMAIN last.ret => last.ret.error \in STRING
        /\ last.ret = process_prompt(InitTemplates, InitKeywords, db, last.arg).ret

\* a call that returned data after a call that returned an error
C7_Witness ==
    /\ mark.op = "process_prompt" /\ "error" \in DOMAIN mark.ret
    /\ after >= 1
    /\ last.op = "process_prompt" /\ "data" \in DOMAIN last.ret

\* C8: process_prompt("Show me the top 5 clients by revenue") over the
\* fixture returns one row per client, A (100) before B (50), and the title
\* "Top 5 Clients Revenue".
C8_EndToEnd ==
    (last.op = "process_prompt" /\ last.arg = "Show me the top 5 clients by revenue") =>
        /\ "data" \in DOMAIN last.ret
        /\ Len(last.ret.data) = 2
        /\ last.ret.data[1].client_name = "A" /\ last.ret.data[1].total_revenue = Num(100)
        /\ last.ret.data[2].client_name = "B" /\ last.ret.data[2].total_revenue = Num(50)
        /\ last.ret.params.title = "Top 5 Clients Revenue"

\* C10: extract_number returns the number after the first "top" followed by
\* whitespace and digits (in any case), even when another integer comes
\* earlier; without such a phrase the first integer of the text; without
\* any digit None.
C10_ExtractNumber ==
    last.op = "extract_number" =>
        /\ last.ret =
              IF TopNMatches(Lower(last.arg)) # {}
              THEN Some(NumberAt(last.arg, RunEnd(last.arg, Least(TopNMatches(Lower(last.arg))) + 3,
                                                  WhiteSpace)))
              ELSE IF DigitPositions(last.arg) # {}
              THEN Some(NumberAt(last.arg, Least(DigitPositions(last.arg))))
              ELSE None
        /\ last.arg = "show me the top 7 clients" => last.ret = Some(7)
        /\ last.arg = "show me clients" => last.ret = None
        /\ last.arg = "3 of the TOP  12 programs" => last.ret = Some(12)

\* "top N" wins over an integer that comes earlier in the text
C10_Witness ==
    /\ last.op = "extract_number"
    /\ TopNMatches(Lower(last.arg)) # {}
    /\ Least(DigitPositions(last.arg)) < Least(TopNMatches(Lower(last.arg)))
    /\ last.ret = Some(12)


\* The pattern <name>\s*(?:is|=|:)\s*([a-zA-Z\s]+) with optional whitespace:
\* the end (exclusive) of the operator of a match that starts at i, or 0.
LooseFilterOpEnd(text, tl, i, name) ==
    IF ~StartsAt(tl, i, name) THEN 0
    ELSE Bind(RunEnd(text, i + Len(name), WhiteSpace), LAMBDA a :
         Bind({o \in IsOps : StartsAt(tl, a, o)}, LAMBDA hits :
            IF hits = {} THEN 0
            ELSE Bind(a + Len(CHOOSE o \in hits : TRUE), LAMBDA b :
                    IF b <= Len(text) /\ CharAt(text, b) \in Letters \cup WhiteSpace
                    THEN b ELSE 0)))

\* the run of letters and spaces after the leftmost such match, trimmed, or None
LooseFilterMatch(text, tl, name) ==
    Bind({i \in 1..Len(text) : LooseFilterOpEnd(text, tl, i, name) # 0}, LAMBDA starts :
        IF starts = {} THEN None
        ELSE Bind(LooseFilterOpEnd(text, tl, Least(starts), name), LAMBDA b :
                Some(Strip(SubSeq(text, b, RunEnd(text, b, Letters \cup WhiteSpace) - 1)))))

FilterNames == {"industry", "region", "size", "category", "stage"}

\* C11: for each filter name of industry, region, size, category and stage,
\* when the prompt contains the name (in any case), optional whitespace, one
\* of "is", "=", ":", optional whitespace and a run of letters and spaces,
\* analyze_prompt sets filters[name] to that run trimmed, so "industry is
\* Healthcare" and "industry=Healthcare" both give industry = "Healthcare";
\* when the pattern does not occur the key is absent.
C11_ExplicitFilters ==
    last.op = "analyze_prompt" =>
        /\ \A name \in FilterNames :
              \E m \in {LooseFilterMatch(last.arg, Lower(last.arg), name)} :
                  IF m.some
                  THEN name \in DOMAIN last.ret.filters /\ last.ret.filters[name] = m.val
                  ELSE name \notin DOMAIN last.ret.filters
        /\ last.arg \in {"industry is Healthcare", "industry=Healthcare"} =>
              last.ret.filters = [industry |-> "Healthcare"]



\* the categories of one table of the lexicon with a keyword in the prompt,
\* in the table's order
PassHits(pass, text) ==
    Bind(Lower(text), LAMBDA pl : SelectSeq(keywords[pass], LAMBDA c : CatMatches(c, pl)))

\* the categories of PassHits, as a set of names
HitCats(pass, text) ==
    Bind(PassHits(pass, text), LAMBDA hit : {hit[i].cat : i \in 1..Len(hit)})

\* C13: in the entity pass only the first entity category in lexicon order
\* (client, program, enrollment, opportunity) with a keyword in the prompt
\* takes effect: entity_type is that of the earliest matching category, and
\* so is the dimension when no trend phrase and no dimension keyword sets
\* it later; later matching entity categories change nothing.
C13_FirstEntityWins ==
    last.op = "analyze_prompt" =>
        \E hit \in {PassHits("entity_types", last.arg)} :
            hit # <<>> =>
                /\ last.ret.entity_type = EntityEffect(DefaultParams, hit[1].cat).entity_type
                /\ ("trend" \notin HitCats("metrics", last.arg)
                        /\ HitCats("dimensions", last.arg) = {})
                    => last.ret.dimension = EntityEffect(DefaultParams, hit[1].cat).dimension


\* C14: the metric, dimension, query-type and time-period passes are each a
\* first-match scan: the metric, the dimension, the query_type and the date
\* filters are those of the first category of their pass, in lexicon order,
\* with a keyword in the prompt, and later matching categories of the same
\* pass change nothing. A prompt with an industry keyword and a time
\* keyword gets dimension industry; a prompt whose only metric keyword is
\* "earnings" gets metric revenue.
C14_FirstMatchPerPass ==
    last.op = "analyze_prompt" =>
        /\ \E hit \in {PassHits("metrics", last.arg)} :
              hit # <<>> =>
                  last.ret.metric =
                      MetricEffect([DefaultParams EXCEPT !.entity_type = last.ret.entity_type],
                                   hit[1].cat, Lower(last.arg)).metric
        /\ \E hit \in {PassHits("dimensions", last.arg)} :
              hit # <<>> =>
                  last.ret.dimension = DimensionEffect(DefaultParams, hit[1].cat).dimension
        /\ \E hit \in {PassHits("query_types", last.arg)} :
              hit # <<>> => last.ret.query_type = hit[1].cat
        /\ \E hit \in {PassHits("time_periods", last.arg)} :
              hit # <<>> =>
                  /\ {"date_from", "date_to"} \subseteq DOMAIN last.ret.filters
                  /\ last.ret.filters.date_from = PeriodFrom(hit[1].cat)
                  /\ last.ret.filters.date_to = PeriodTo(hit[1].cat)
        /\ {"industry", "time"} \subseteq HitCats("dimensions", last.arg)
              => last.ret.dimension = "industry"
        /\ last.arg = "show earnings" => last.ret.metric = "revenue"


\* C15: for every prompt in which a trend phrase of the metric lexicon
\* matches and no query-type keyword matches, analyze_prompt returns
\* query_type trend; the dimension is month when no dimension keyword
\* matches, and the matched dimension when a keyword of a dimension other
\* than time matches (the dimension pass overrides the month of the metric
\* pass). "show revenue trend by industry" gets dimension industry and
\* query_type trend.
C15_TrendOverride ==
    (/\ last.op = "analyze_prompt"
     /\ "trend" \in HitCats("metrics", last.arg)
     /\ HitCats("query_types", last.arg) = {}) =>
        \E dims \in {HitCats("dimensions", last.arg)} :
            /\ last.ret.query_type = "trend"
            /\ dims = {} => last.ret.dimension = "month"
            /\ dims \ {"time"} # {} => last.ret.dimension \in dims \ {"time"}
            /\ last.arg = "show revenue trend by industry" => last.ret.dimension = "industry"


\* C16: for every prompt with a keyword of the query-type lexicon, the
\* query_type analyze_prompt returns is the one the query-type pass sets,
\* one of top, bottom, average, comparison and distribution of a category
\* that matches, and never the trend of a trend phrase or a time keyword of
\* the same prompt: no pass after the query-type pass changes it.
C16_QueryTypeFinal ==
    (last.op = "analyze_prompt" /\ HitCats("query_types", last.arg) # {}) =>
        /\ last.ret.query_type \in HitCats("query_types", last.arg)
        /\ last.ret.query_type \in {"top", "bottom", "average", "comparison", "distribution"}
        /\ last.ret.query_type =
              ScanPass("query_types", keywords.query_types, Lower(last.arg), DefaultParams).query_type

\* a prompt with a trend phrase, a time keyword and a comparison keyword
C16_Witness ==
    /\ last.op = "analyze_prompt"
    /\ "trend" \in HitCats("metrics", last.arg)
    /\ "time" \in HitCats("dimensions", last.arg)
    /\ last.ret.query_type = "comparison"


\* the count metric of each entity type
CountMetric == [clients |-> "client_count", programs |-> "program_count",
                enrollments |-> "enrollment_count", opportunities |-> "opportunity_count"]

\* C17: whenever analyze_prompt returns one of the metrics client_count,
\* program_count, enrollment_count and opportunity_count, it is the count
\* metric of the entity_type it returns.
C17_CountFollowsEntity ==
    (/\ last.op = "analyze_prompt"
     /\ last.ret.metric \in {CountMetric[e] : e \in DOMAIN CountMetric}) =>
        /\ last.ret.entity_type \in DOMAIN CountMetric
        /\ last.ret.metric = CountMetric[last.ret.entity_type]

\* a count over a prompt that names two entities: the metric is the count
\* of the entity the entity pass ended with
C17_Witness ==
    /\ last.op = "analyze_prompt"
    /\ "count" \in HitCats("metrics", last.arg)
    /\ {"client", "opportunity"} \subseteq HitCats("entity_types", last.arg)
    /\ last.ret.entity_type = "opportunities"
    /\ last.ret.metric = "opportunity_count"


\* the keywords of one table of the lexicon that occur in the prompt
MatchedWords(pass, text) ==
    Bind(Lower(text), LAMBDA pl :
        UNION {{keywords[pass][j].words[i] :
                    i \in {k \in 1..Len(keywords[pass][j].words) :
                              Contains(pl, keywords[pass][j].words[k])}} :
               j \in 1..Len(keywords[pass])})

\* C18: when the profit category is the metric category that takes effect
\* (the metric returned is the one its branch assigns, which is the case
\* when it matches and neither cost nor count matches after it), the metric
\* is profit_margin if the prompt in lower case contains "margin" and
\* profit otherwise; a prompt whose only metric keywords are "margin" or
\* "margins" gets profit_margin.
C18_ProfitOrMargin ==
    last.op = "analyze_prompt" =>
        /\ last.ret.metric \in {"profit", "profit_margin"} =>
              (last.ret.metric = "profit_margin" <=> Contains(Lower(last.arg), "margin"))
        /\ \E hit \in {HitCats("metrics", last.arg)} :
              ("profit" \in hit /\ hit \cap {"cost", "count"} = {}) =>
                  last.ret.metric \in {"profit", "profit_margin"}
        /\ \E words \in {MatchedWords("metrics", last.arg)} :
              (words # {} /\ words \subseteq {"margin", "margins"}) =>
                  last.ret.metric = "profit_margin"

\* a prompt whose only metric keywords are "margin" and "margins"
C18_Witness ==
    /\ last.op = "analyze_prompt"
    /\ MatchedWords("metrics", last.arg) = {"margin", "margins"}
    /\ last.ret.metric = "profit_margin"


\* C19: in every dict analyze_prompt returns, filters has date_from exactly
\* when it has date_to, and exactly when a time-period phrase of the lexicon
\* occurs in the prompt; the two values are then the date("now", ...)
\* expressions of one and the same period whose phrase occurs, also when
\* the prompt has explicit field filters.
C19_DatePair ==
    last.op = "analyze_prompt" =>
        \E periods \in {HitCats("time_periods", last.arg)} :
            /\ "date_from" \in DOMAIN last.ret.filters <=> "date_to" \in DOMAIN last.ret.filters
            /\ "date_from" \in DOMAIN last.ret.filters <=> periods # {}
            /\ "date_from" \in DOMAIN last.ret.filters =>
                  /\ \E cat \in periods :
                        /\ last.ret.filters.date_from = PeriodFrom(cat)
                        /\ last.ret.filters.date_to = PeriodTo(cat)
                  /\ StartsAt(last.ret.filters.date_from, 1, "date(\"now\"")
                  /\ StartsAt(last.ret.filters.date_to, 1, "date(\"now\"")

\* a prompt with a period phrase and an explicit industry filter
C19_Witness ==
    /\ last.op = "analyze_prompt"
    /\ "industry" \in DOMAIN last.ret.filters
    /\ HitCats("time_periods", last.arg) = {"last_year"}
    /\ last.ret.filters.date_from = "date(\"now\", \"start of year\", \"-1 year\")"
    /\ last.ret.filters.date_to = "date(\"now\", \"start of year\", \"-1 day\")"

(***************************************************************************)
(* Properties of generate_title, checked under SpecTitle                   *)
(***************************************************************************)
\* the label of k in a label map, as a list of zero or one part
TitleLabel(map, k) == IF k \in DOMAIN map THEN <<map[k]>> ELSE <<>>

\* C12: generate_title returns the parts joined by one space, in this
\* order: the query-type label; the limit, only for query_type top or
\* bottom; the entity label, only for dimension client_name or
\* program_name; the metric label; the dimension label when it is not
\* empty. A query_type, metric or dimension without a label is left out,
\* and the dict passed in is as it was.
C12_TitleParts ==
    last.op = "generate_title" =>
        /\ last.ret =
              Join(TitleLabel(query_type_map, last.arg.query_type)
                   \o (IF last.arg.query_type \in {"top", "bottom"} /\ "limit" \in DOMAIN last.arg
                       THEN <<ToString(last.arg.limit)>> ELSE <<>>)
                   \o (IF last.arg.dimension \in {"client_name", "program_name"}
                       THEN IF last.arg.entity_type \in DOMAIN entity_type_map
                            THEN <<entity_type_map[last.arg.entity_type]>>
                            ELSE <<Capitalize(last.arg.entity_type)>>
                       ELSE <<>>)
                   \o TitleLabel(metric_map, last.arg.metric)
                   \o (IF TitleLabel(dimension_map, last.arg.dimension) \in {<<>>, <<"">>}
                       THEN <<>> ELSE TitleLabel(dimension_map, last.arg.dimension)))
        /\ last.params = last.arg
        /\ last.arg = [query_type |-> "top", entity_type |-> "clients", metric |-> "revenue",
                       dimension |-> "client_name", limit |-> 5]
              => last.ret = "Top 5 Clients Revenue"
        /\ last.arg = [query_type |-> "top", entity_type |-> "clients", metric |-> "revenue",
                       dimension |-> "client_name"]
              => last.ret = "Top Clients Revenue"
        /\ last.arg = [query_type |-> "distribution", entity_type |-> "opportunities",
                       metric |-> "win_rate", dimension |-> "industry", limit |-> 12]
              => last.ret = "Distribution of Win Rate by Industry"
        /\ last.arg = [query_type |-> "ranking", entity_type |-> "trainers",
                       metric |-> "satisfaction", dimension |-> "trainer", limit |-> 5]
              => last.ret = ""

\* a title made of the metric and dimension labels only: the query type has
\* no label and the dimension is not a name dimension
C12_Witness ==
    /\ last.op = "generate_title"
    /\ last.arg.query_type \notin DOMAIN query_type_map
    /\ last.arg.dimension = "month"
    /\ last.arg.metric = "profit_margin"
    /\ last.ret = "Profit Margin Over Time"

(***************************************************************************)
(* Properties of the query builder, checked under SpecCompile              *)
(***************************************************************************)
\* the combinations the specification names as unsupported
Unsupported(req) ==
    \/ req.dimension = "stage" /\ req.entity_type # "opportunities"
    \/ req.metric = "win_rate" /\ req.entity_type = "clients"

\* C6: a request whose dimension is not valid for its entity_type (stage
\* outside opportunities) or whose metric is not computable for it
\* (win_rate for clients) fails with an UnsupportedCombination error and no
\* query is produced.
C6_RejectsUnsupported ==
    (last.op = "create_custom_visualization" /\ Unsupported(last.arg)) =>
        /\ DOMAIN last.ret = {"error"}
        /\ last.ret.error = "UnsupportedCombination"

\* C9: in every row of a profit_margin query that SQLite executes,
\* profit_margin is total_profit / total_revenue * 100 when the group's
\* summed revenue is > 0, and 0 when it is <= 0 or NULL: the division is
\* never made with a zero divisor.
C9_ProfitMarginGuard ==
    (/\ last.op = "create_custom_visualization"
     /\ last.arg.metric = "profit_margin"
     /\ "rows" \in DOMAIN Execute(last.query, db)) =>
        \A i \in 1..Len(Execute(last.query, db).rows) :
            LET row == Execute(last.query, db).rows[i]
            IN  IF row.total_revenue.den # 0 /\ row.total_revenue.num > 0
                THEN NumEq(row.profit_margin,
                           Frac(row.total_profit.num * 100, row.total_revenue.num))
                ELSE row.profit_margin = Num(0)

\* a group whose revenue sums to 0 has profit_margin 0
C9_Witness ==
    /\ last.op = "create_custom_visualization"
    /\ last.arg.metric = "profit_margin"
    /\ "data" \in DOMAIN last.ret
    /\ \E i \in 1..Len(last.ret.data) :
          /\ last.ret.data[i].total_revenue = Num(0)
          /\ last.ret.data[i].total_profit # Num(0)
          /\ last.ret.data[i].profit_margin = Num(0)

\* the other one of top and bottom
Opposite(query_type) == IF query_type = "top" THEN "bottom" ELSE "top"

\* C20: the ORDER BY of the compiled query follows query_type: for top the
\* metric column descending, for bottom the metric column ascending, for
\* trend the month bucket ascending; two requests that differ only in top
\* against bottom compile to different queries. (Stated for the metrics
\* that have a column.)
C20_OrderByQueryType ==
    (last.op = "create_custom_visualization" /\ last.arg.metric # "cost") =>
        /\ last.arg.query_type = "top" =>
              /\ Len(last.query.order_by) = 1
              /\ last.query.order_by[1].dir = "DESC"
              /\ last.query.order_by[1].col # "month"
        /\ last.arg.query_type = "bottom" =>
              /\ Len(last.query.order_by) = 1
              /\ last.query.order_by[1].dir = "ASC"
              /\ last.query.order_by[1].col # "month"
        /\ last.arg.query_type = "trend" =>
              /\ Len(last.query.order_by) >= 1
              /\ last.query.order_by[1].col = "month"
              /\ last.query.order_by[1].dir = "ASC"
        /\ (last.arg.query_type \in {"top", "bottom"} /\ "query" \in DOMAIN last.ret) =>
              \E r \in {create_custom_visualization(Opposite(last.arg.query_type),
                            last.arg.entity_type, last.arg.metric, last.arg.dimension,
                            last.arg.filters, last.arg.limit, db)} :
                  "query" \in DOMAIN r /\ r.query # last.ret.query

\* the predicate p of a where clause is the one filter entry key = value
\* compiles to
PredOf(p, entity_type, key, value) ==
    CASE key \in {"industry", "size", "region", "category", "stage"} ->
            p.op = "eq" /\ p.field = key /\ p.value = value
      [] key = "delivery_mode" ->
            /\ p.op = "eq" /\ p.field = key /\ p.value = value
            /\ p.alias = IF entity_type = "programs" THEN "p" ELSE "e"
      [] key = "date_from" ->
            p.op = "ge" /\ p.field \in {"start_date", "created_date"} /\ p.value = value
      [] key = "date_to" ->
            p.op = "le" /\ p.field \in {"start_date", "created_date"} /\ p.value = value
      [] OTHER -> FALSE

\* C21: every entry of filters with a non-empty value contributes exactly
\* one predicate to the where clause of the compiled query: an equality for
\* industry, size, region, category, delivery_mode and stage, a lower bound
\* on the date column for date_from and an upper bound for date_to, with
\* delivery_mode on p for entity_type programs and on e otherwise; no entry
\* is dropped.
C21_FiltersToPredicates ==
    last.op = "create_custom_visualization" =>
        \A key \in DOMAIN last.arg.filters :
            last.arg.filters[key] # "" =>
                Cardinality({i \in 1..Len(last.query.where) :
                                PredOf(last.query.where[i], last.arg.entity_type,
                                       key, last.arg.filters[key])}) = 1

\* C22: the win rate of a group is won / (won + lost) * 100 over the closed
\* opportunities, and 0 when the group has no closed opportunity; an open
\* opportunity in the group does not change it.
C22_WinRate ==
    (/\ last.op = "create_custom_visualization"
     /\ last.arg.metric = "win_rate") =>
        \E r \in {Execute(last.query, db)} :
            "rows" \in DOMAIN r =>
                \A i \in 1..Len(r.rows) :
                    \E closed \in {r.rows[i].won_count.num + r.rows[i].lost_count.num} :
                        IF closed > 0
                        THEN NumEq(r.rows[i].win_rate,
                                   Frac(r.rows[i].won_count.num * 100, closed))
                        ELSE r.rows[i].win_rate = Num(0)

\* the rows of R whose opportunity is still open
OpenOpportunities(R) == {r \in R : r["o"].stage \notin {"Closed Won", "Closed Lost"}}

\* C23: the weighted pipeline value of a group sums potential_revenue *
\* probability / 100 over the opportunities that are not closed; Closed Won
\* and Closed Lost opportunities contribute nothing.
C23_WeightedOpenOnly ==
    (/\ last.op = "create_custom_visualization"
     /\ last.arg.metric = "pipeline_value") =>
        \E r \in {Execute(last.query, db)} :
            "rows" \in DOMAIN r =>
                \E rows \in {{x \in JoinRows(last.query.from, Len(last.query.from), db) :
                                \A i \in 1..Len(last.query.where) :
                                    PredHolds(last.query.where[i], x)}} :
                    \A i \in 1..Len(r.rows) :
                        \E G \in {rows} \cup {{x \in rows : GroupKey(last.query, x) = k} :
                                                k \in {GroupKey(last.query, x) : x \in rows}} :
                            /\ r.rows[i] = ResultRow(last.query, G)
                            /\ IF OpenOpportunities(G) = {}
                               THEN r.rows[i].weighted_value \in {Null, Num(0)}
                               ELSE NumEq(r.rows[i].weighted_value,
                                          Frac(SumRows(OpenOpportunities(G), "sum_weighted"), 100))

\* C24: each of the ten metrics, cost included, puts at least one aggregated
\* expression in the select list, so the select list is never empty.
C24_MetricSelectsAggregate ==
    (/\ last.op = "create_custom_visualization"
     /\ last.arg.metric \in Metrics) =>
        /\ last.query.select # <<>>
        /\ \E i \in 1..Len(last.query.select) : last.query.select[i].kind = "agg"

\* C25: whenever a query is produced for the dimension client_name or
\* program_name, under any entity_type (clients and programs included), its
\* select list holds the name column of the clients or programs relation,
\* that relation is joined, and the query is grouped.
C25_DimensionGroups ==
    (/\ last.op = "create_custom_visualization"
     /\ last.arg.dimension \in {"client_name", "program_name"}
     /\ "query" \in DOMAIN last.ret) =>
        /\ last.query.group_by # <<>>
        /\ \E i \in 1..Len(last.query.select) :
              /\ last.query.select[i].kind = "col"
              /\ last.query.select[i].col = last.arg.dimension
              /\ last.query.select[i].field = "name"
              /\ last.query.select[i].alias \in BoundAliases(last.query)

\* the characters of s
Chars(s) == {CharAt(s, i) : i \in 1..Len(s)}

\* the filters analyze_prompt takes from a "<name> is <value>" phrase
FieldFilters == {"industry", "region", "size", "category", "delivery_mode", "stage"}

\* C27 as stated: every field-filter value analyze_prompt returns consists
\* of ASCII letters and whitespace only and has no leading or trailing
\* whitespace.
C27_AsciiLettersOnly ==
    last.op = "analyze_prompt" =>
        \A key \in FieldFilters \cap DOMAIN last.ret.filters :
            /\ Chars(last.ret.filters[key]) \subseteq UpperCase \cup LowerCase \cup WhiteSpace
            /\ Strip(last.ret.filters[key]) = last.ret.filters[key]

\* C27: every field-filter value analyze_prompt returns consists only of
\* whitespace and of the letters [a-zA-Z] matches when case is ignored (the
\* ASCII letters and the letters outside ASCII that case-fold to one), and
\* has no leading or trailing whitespace; so it holds no quote, semicolon,
\* digit or other punctuation.
C27_FilterValueLetters ==
    last.op = "analyze_prompt" =>
        \A key \in FieldFilters \cap DOMAIN last.ret.filters :
            /\ Chars(last.ret.filters[key]) \subseteq Letters \cup WhiteSpace
            /\ Strip(last.ret.filters[key]) = last.ret.filters[key]
            /\ Chars(last.ret.filters[key]) \cap (Digits \cup {"'", "\"", ";", "-", "\\"}) = {}

\* the value of a filter phrase followed by a quote ends before the quote
C27_Witness ==
    /\ last.op = "analyze_prompt"
    /\ Contains(last.arg, "is O'Brien;")
    /\ last.ret.filters = [region |-> "O"]

\* C28: when match_template returns a template, process_prompt hands the
\* template's query_type, entity_type, metric and dimension to the query
\* builder with an empty filter mapping, whatever filter or time-period
\* phrase the prompt holds, and with the prompt's number as the limit, or 10
\* when the prompt has no number (or the number 0).
C28_TemplateDropsFilters ==
    (last.op = "process_prompt" /\ last.template.some) =>
        \E n \in {extract_number(last.arg)} :
        \E t \in {InitTemplates[last.template.val]} :
        \E r \in {create_custom_visualization(
                      t.query_type, t.entity_type, t.metric, t.dimension, EmptyDict,
                      IF n.some /\ n.val # 0 THEN n.val ELSE 10, db)} :
            /\ "filters" \notin DOMAIN last.params
            /\ \A k \in DOMAIN t : last.params[k] = t[k]
            /\ ("limit" \in DOMAIN last.params) = (n.some /\ n.val # 0)
            /\ \A k \in DOMAIN r : last.ret[k] = r[k]

\* a prompt with a filter phrase and a time period that matches the
\* revenue_by_industry template: the query has the limit 3 and no filter
C28_Witness ==
    /\ last.op = "process_prompt"
    /\ last.template = Some("revenue_by_industry")
    /\ Contains(last.arg, "industry is Tech last year")
    /\ DOMAIN analyze_prompt(InitKeywords, last.arg).filters = {"industry", "date_from", "date_to"}
    /\ last.ret.query = "SELECT c.industry, SUM(e.revenue) as total_revenue FROM clients c JOIN enrollments e ON c.client_id = e.client_id WHERE c.industry IS NOT NULL GROUP BY c.industry ORDER BY total_revenue DESC LIMIT 3"

\* the query create_custom_visualization builds for a parameter dict, with
\* the defaults execute_analysis fills in
QueryOf(params) ==
    BuildQuery(params.entity_type, params.metric, params.dimension,
               IF "filters" \in DOMAIN params THEN params.filters ELSE EmptyDict,
               IF "limit" \in DOMAIN params THEN params.limit ELSE DefaultLimit)

\* C29: for every request analyze_prompt returns and every request
\* process_prompt executes (a template's or the resolver's), each relation
\* alias the compiled select list, predicates, grouping and joins refer to
\* is introduced by the compiled FROM/JOIN list.
C29_QueryClosed ==
    /\ last.op = "analyze_prompt" =>
          \E q \in {QueryOf(last.ret)} : UsedAliases(q) \subseteq BoundAliases(q)
    /\ last.op = "process_prompt" =>
          \E q \in {QueryOf(last.params)} : UsedAliases(q) \subseteq BoundAliases(q)

\* the metrics and dimensions analyze_prompt can assign
ResolverMetrics == {"revenue", "profit", "profit_margin", "cost", "client_count",
                    "program_count", "enrollment_count", "opportunity_count"}
ResolverDimensions == {"client_name", "program_name", "industry", "region", "size",
                       "category", "delivery_mode", "month"}

\* C30: analyze_prompt returns a metric of ResolverMetrics and a dimension
\* of ResolverDimensions for every prompt; a request with the metric
\* win_rate or pipeline_value or the dimension stage or cost_type is handed
\* to the query builder by process_prompt only when a template matched.
C30_ResolverRange ==
    /\ last.op = "analyze_prompt" =>
          /\ last.ret.metric \in ResolverMetrics
          /\ last.ret.dimension \in ResolverDimensions
    /\ last.op = "process_prompt" =>
          \/ last.template.some
          \/ /\ last.params.metric \in ResolverMetrics
             /\ last.params.dimension \in ResolverDimensions

\* the pipeline prompt reaches pipeline_value by stage through its template,
\* while analyze_prompt resolves the same prompt inside the resolver's range
C30_Witness ==
    /\ last.op = "process_prompt"
    /\ last.arg = "Show me the pipeline value by stage"
    /\ last.template = Some("pipeline_by_stage")
    /\ last.params.metric = "pipeline_value"
    /\ last.params.dimension = "stage"
    /\ analyze_prompt(InitKeywords, last.arg).metric \in ResolverMetrics
    /\ analyze_prompt(InitKeywords, last.arg).dimension \in ResolverDimensions

(***************************************************************************)
(* Properties of interleaved calls, checked under SpecConc                 *)
(***************************************************************************)
\* C26: whatever the interleaving of the calls in flight, a finished call
\* has returned the parameters (limit and title included) that the same
\* call returns when it runs alone on the analyzer as constructed, and the
\* template and keyword tables are as constructed.
C26_CallsIsolated ==
    /\ templates = InitTemplates
    /\ keywords = InitKeywords
    /\ \A t \in Threads :
          running[t].pc = "done" =>
              IF running[t].op = "process_prompt"
              THEN running[t].ret.params =
                       process_prompt(InitTemplates, InitKeywords, db, running[t].prompt).ret.params
              ELSE running[t].ret = analyze_prompt(InitKeywords, running[t].prompt)

\* a call on a template has returned without a limit while a call on the
\* same template is in flight with its limit 3 stored
C26_Witness ==
    \E t1, t2 \in Threads :
        /\ running[t1].pc = "done" /\ running[t1].op = "process_prompt"
        /\ running[t1].prompt = "top programs by revenue"
        /\ "limit" \notin DOMAIN running[t1].ret.params
        /\ running[t2].pc = "title"
        /\ running[t2].prompt = "the 3 top programs by revenue"
        /\ running[t2].h.val.limit = 3
        /\ match_template(running[t1].prompt) = Some("top_programs_by_revenue")
        /\ match_template(running[t2].prompt) = match_template(running[t1].prompt)
====
